---- MODULE Spec2Model ----
(***************************************************************************)
(* State-machine model of the chunk placement / replication / repair /     *)
(* reassembly engine of file_storage (Django app of hotel-file-system).    *)
(*                                                                         *)
(* The metadata store (FileNode, StoredFile, FileChunk, PendingReplication *)
(* rows), the object stores (one MinIO bucket per node, plus Django's      *)
(* default_storage) and the Django cache are the state.  Every view,       *)
(* management command and manager method is one action.                    *)
(***************************************************************************)
EXTENDS Integers, Sequences, FiniteSets, TLC

(************************* bounds of the model *****************************)
MaxNodes == 4          \* FileNode rows that can exist (ids are never reused)
MaxLen == 2            \* longest uploaded byte stream
MaxChunkSize == 2      \* largest FileChunker.chunk_size tried
MaxFiles == 1          \* StoredFile rows created in one behaviour
MaxIds == 5            \* uuid4 / timestamp nonces drawn in one behaviour
MaxEvents == 1         \* outages and status changes per behaviour
MaxDamaged == 1        \* objects overwritten or deleted per behaviour
MaxMinReplicas == 2    \* largest min_replicas given to RedundancyManager
MaxAdded == 3          \* add_node calls in one behaviour of the node registry
MaxPriority == 1       \* largest FileNode.priority given to add_node
MaxPending == 2        \* PendingReplication rows enqueued per behaviour
MaxChunkRows == 20      \* chunk rows of a health report
MaxRowNumber == 2       \* chunk numbers of a file's rows in a health report

(************************* program constants *******************************)
minimum_nodes_required == 3      \* views.upload_file
max_attempts == 5                \* process_pending_replications --max-attempts default

NoNode == 0                      \* Python None for a node / node id
Local == NoNode                  \* default_storage backed by no node's bucket
NodeIds == 1 .. MaxNodes
StatusChoices == {"active", "inactive", "maintenance"}          \* FileNode.status

VARIABLES
    nodes,            \* FileNode rows: id -> [status, is_primary, priority]
    nextNodeId,       \* FileNode autoincrement
    up,               \* per node id: does /minio/health/ready answer 200 (environment)
    defaultBackend,   \* which store Django's default_storage is configured on
    files,            \* StoredFile rows: id -> [data, checksum, size_bytes]
    chunks,           \* FileChunk rows (set of records)
    objects,          \* backend objects: storage_path -> [backend, data]
    pending,          \* PendingReplication rows (set of records)
    stats,            \* cache["node_load_stats"]
    pref,             \* cache["preferred_node_<file>_<n>"]
    fcache,           \* cache["file_cache_<file>"]
    nextId,           \* nonces handed out so far
    events,           \* outages and status changes so far
    damaged,          \* objects overwritten or deleted so far
    enqueued,         \* PendingReplication rows enqueued so far
    offline_nodes,    \* monitor_nodes: ids the running monitor has seen offline
    row_order,        \* per node id: position in which the database returns the row
                      \* among rows of equal sort key (environment)
    running,          \* per process id: the handler call in flight and its position
    result            \* what the last operation returned to its caller

vars == <<nodes, nextNodeId, up, defaultBackend, files, chunks, objects, pending,
          stats, pref, fcache, nextId, events, damaged, enqueued, offline_nodes,
          row_order, running, result>>

(***************************** helpers *************************************)
\* F applied to the value of v, which is computed once
With(v, F(_)) == CHOOSE y \in {F(x) : x \in {v}} : TRUE

Max(S) == CHOOSE x \in S : \A y \in S : y <= x
Min(S) == CHOOSE x \in S : \A y \in S : x <= y

RECURSIVE SeqOf(_)
\* the ids of S in ascending order (a queryset ordered by pk)
SeqOf(S) ==
    IF S = {} THEN <<>>
    ELSE With(Min(S), LAMBDA m : With(S \ {m}, LAMBDA R : <<m>> \o SeqOf(R)))

Take(s, n) == SubSeq(s, 1, IF n < Len(s) THEN n ELSE Len(s))
\* a read that loses the byte after the chunk
Drop_one_more(s, n) == SubSeq(s, (IF n < Len(s) THEN n + 1 ELSE Len(s)) + 1, Len(s))
Drop(s, n) == SubSeq(s, (IF n < Len(s) THEN n ELSE Len(s)) + 1, Len(s))

RECURSIVE sha256(_)
\* hashlib.sha256(data).hexdigest(): an injective code of the byte string
sha256(data) == IF data = <<>> THEN 1 ELSE 3 * sha256(Tail(data)) + Head(data) + 1

NoStats == [none |-> TRUE]
NoResult == [op |-> "none"]
\* the processes that run handlers side by side, none of them in a call
MaxProcs == 2
Procs == 1 .. MaxProcs
Idle == [op |-> "idle"]
NoneRunning == [d \in Procs |-> Idle]
\* servers that stop answering while a handler runs: before the put_object of
\* chunk number `at`, the servers of `nodes` go down
NoOutage == [at |-> 0, nodes |-> {}]

(********************* the state a handler works on ************************)
\* The rows, objects and cache entries a handler reads and writes, threaded
\* through the operators below; an action commits the record it ends with.
World == [nodes |-> nodes, chunks |-> chunks, objects |-> objects,
          pending |-> pending, stats |-> stats, pref |-> pref,
          fcache |-> fcache, nextId |-> nextId, up |-> up, files |-> files,
          outage |-> NoOutage]

Commit(w) ==
    /\ nodes' = w.nodes
    /\ chunks' = w.chunks
    /\ objects' = w.objects
    /\ pending' = w.pending
    /\ stats' = w.stats
    /\ pref' = w.pref
    /\ fcache' = w.fcache
    /\ nextId' = w.nextId
    /\ files' = w.files

(*********************** object stores (capabilities) **********************)
\* client.put_object(bucket_name=node.bucket_name, object_name=path, ...):
\* raises unless the node's MinIO server answers.
put_ok(w, n) == w.up[n]
put_object(objs, n, path, data) == (path :> [backend |-> n, data |-> data]) @@ objs

\* client.get_object(node.bucket_name, path).read(): raises unless the node
\* answers and the object is in that node's bucket.
get_ok(w, n, path) ==
    /\ n # NoNode
    /\ w.up[n]
    /\ path \in DOMAIN w.objects
    /\ w.objects[path].backend = n

\* django.core.files.storage.default_storage: ONE store, configured outside
\* the application: the local media directory or the bucket of one node.
default_reachable(w) == defaultBackend = Local \/ w.up[defaultBackend]
default_exists(objs, path) == path \in DOMAIN objs /\ objs[path].backend = defaultBackend
\* default_storage.open(path): IOError unless the store answers and holds path
default_open_ok(w, path) == default_reachable(w) /\ default_exists(w.objects, path)
default_save(objs, path, data) ==
    (path :> [backend |-> defaultBackend, data |-> data]) @@ objs
default_delete(objs, path) == [p \in DOMAIN objs \ {path} |-> objs[p]]

chunk_path(f, n, nonce) == [kind |-> "chunks", file |-> f, chunk_number |-> n, nonce |-> nonce]
replica_path(f, n, nonce) == [kind |-> "replicas", file |-> f, chunk_number |-> n, nonce |-> nonce]

(******************************* NodeManager *******************************)
ActiveIds(nd) == {n \in DOMAIN nd : nd[n].status = "active"}

RECURSIVE OrderByPriority(_, _)
\* .order_by('priority'): ascending priority, rows of equal priority in the
\* order the database returns them
OrderByPriority(S, nd) ==
    IF S = {} THEN <<>>
    ELSE With(CHOOSE x \in S : \A y \in S :
                  \/ nd[x].priority < nd[y].priority
                  \/ nd[x].priority = nd[y].priority /\ row_order[x] <= row_order[y],
              LAMBDA m : With(S \ {m}, LAMBDA R : <<m>> \o OrderByPriority(R, nd)))

get_active_nodes(w) == With(ActiveIds(w.nodes), LAMBDA S : OrderByPriority(S, w.nodes))

check_node_availability(w, n) == w.up[n]

\* returns [w, node]; node = NoNode when no node is active
get_primary_node(w) ==
    With({n \in ActiveIds(w.nodes) : w.nodes[n].is_primary}, LAMBDA prim :
      IF prim # {} THEN [w |-> w, node |-> Min(prim)]
      ELSE With(get_active_nodes(w), LAMBDA cand :
        IF cand # <<>>
        THEN [w |-> [w EXCEPT !.nodes[cand[1]].is_primary = TRUE], node |-> cand[1]]
        ELSE [w |-> w, node |-> NoNode]))

\* a count that takes every Active node as available, without the probe
get_available_nodes_count_unprobed(w) ==
    Cardinality(ActiveIds(w.nodes))

get_available_nodes_count(w) ==
    Cardinality({n \in ActiveIds(w.nodes) : check_node_availability(w, n)})

stored_chunks_count(chs, n) == Cardinality({c \in chs : c.node = n})

\* the statistics elect_best_node_for_upload computes when the cache has none
compute_node_stats(w) ==
    [none |-> FALSE,
     nodes |-> [n \in ActiveIds(w.nodes) |->
                   [chunk_count |-> stored_chunks_count(w.chunks, n),
                    available |-> check_node_availability(w, n)]]]

\* the first node, in priority order, whose cached load is the smallest
\* among the nodes cached as available
least_loaded(order, st) ==
    With({i \in 1 .. Len(order) : order[i] \in DOMAIN st /\ st[order[i]].available},
         LAMBDA avail :
      IF avail = {} THEN NoNode
      ELSE order[Min({i \in avail : \A j \in avail :
                         st[order[i]].chunk_count <= st[order[j]].chunk_count})])

\* returns [w, node]
elect_best_node_for_upload(w) ==
    With(get_active_nodes(w), LAMBDA order :
      IF order = <<>> THEN [w |-> w, node |-> NoNode]
      ELSE
        With(IF w.stats.none THEN [w EXCEPT !.stats = compute_node_stats(w)] ELSE w,
             LAMBDA w1 :
          With(least_loaded(order, w1.stats.nodes), LAMBDA best :
            IF best # NoNode THEN [w |-> w1, node |-> best]
            ELSE With(get_primary_node(w1), LAMBDA p :
              IF p.node # NoNode /\ check_node_availability(p.w, p.node) THEN p
              ELSE [w |-> p.w, node |-> NoNode]))))

(******************************* FileChunk *********************************)
new_chunk(id, f, n, data, path, node, rep) ==
    [id |-> id, file |-> f, chunk_number |-> n, size_bytes |-> Len(data),
     checksum |-> sha256(data), storage_path |-> path, node |-> node,
     is_replica |-> rep, status |-> "uploaded"]

\* Meta.unique_together = ('file', 'chunk_number', 'is_replica'): an insert
\* of a second such row raises IntegrityError
\* a table without the constraint
unique_together_dropped(chs, f, n, rep) ==
    \E c \in chs : c.file = f /\ c.chunk_number = n /\ c.is_replica = rep /\ c.id < 0
unique_together(chs, f, n, rep) ==
    \E c \in chs : c.file = f /\ c.chunk_number = n /\ c.is_replica = rep

RECURSIVE OrderChunks(_)
\* Meta.ordering = ['chunk_number']; rows of one chunk number by id
OrderChunks(S) ==
    IF S = {} THEN <<>>
    ELSE With(CHOOSE x \in S : \A y \in S :
                  \/ x.chunk_number < y.chunk_number
                  \/ x.chunk_number = y.chunk_number /\ x.id <= y.id,
              LAMBDA m : With(S \ {m}, LAMBDA R : <<m>> \o OrderChunks(R)))

\* chunk.save() of the instance c, whose fields were changed in memory
save_chunk(chs, c) == {x \in chs : x.id # c.id} \cup {c}

(************************ FileChunker.chunk_file ***************************)
\* the node elected for chunk num, and the servers as they answer when the
\* chunk is written
struck(e, num) ==
    IF num = e.w.outage.at
    THEN [e EXCEPT !.w.up = [n \in DOMAIN @ |-> @[n] /\ n \notin e.w.outage.nodes]]
    ELSE e

RECURSIVE chunk_loop(_, _, _, _, _, _, _)
\* the while loop of chunk_file; returns [ok, w, made]; when not ok, made are
\* the rows written before the chunk that failed
chunk_loop(w, f, rest, size, num, order, made) ==
    IF rest = <<>> THEN [ok |-> TRUE, w |-> w, made |-> made]
    ELSE With(struck(elect_best_node_for_upload(w), num), LAMBDA e :
      LET data == Take(rest, size)
          id == e.w.nextId
          path == chunk_path(f, num, id)
          alts == SelectSeq(order, LAMBDA n : n # e.node)
          row(n) == new_chunk(id, f, num, data, path, n, FALSE)
          stored(n) == [e.w EXCEPT !.objects = put_object(@, n, path, data),
                                   !.chunks = @ \cup {row(n)},
                                   !.nextId = id + 1]
          next(n) == With(stored(n), LAMBDA w2 :
                       With(Drop(rest, size), LAMBDA rest2 :
                         With(made \cup {row(n)}, LAMBDA made2 :
                           chunk_loop(w2, f, rest2, size, num + 1, order, made2))))
      IN IF e.node = NoNode THEN [ok |-> FALSE, w |-> e.w, made |-> made]
         ELSE IF put_ok(e.w, e.node) THEN next(e.node)
         ELSE IF alts # <<>> /\ put_ok(e.w, alts[1]) THEN next(alts[1])
         ELSE [ok |-> FALSE, w |-> e.w, made |-> made])

\* _cleanup_partial_upload: deletes, through default_storage, the objects of
\* the rows made so far (an error on one chunk is logged and skipped)
cleanup_partial_upload(w, objs, made) ==
    IF default_reachable(w)
    THEN [p \in {q \in DOMAIN objs :
                   ~\E c \in made : c.storage_path = q /\ default_exists(objs, q)}
            |-> objs[p]]
    ELSE objs

\* returns [ok, w, made, failed_at]; failed_at: the number of the chunk that
\* could not be stored, 0 when none.  @transaction.atomic: when it raises, every row
\* written inside it is rolled back; objects and cache entries are not.
chunk_file(w, f, data, size) ==
    With(get_active_nodes(w), LAMBDA order :
      IF order = <<>> THEN [ok |-> FALSE, w |-> w, made |-> {}, failed_at |-> 0]
      ELSE With(chunk_loop(w, f, data, size, 1, order, {}), LAMBDA r :
        IF r.ok THEN [ok |-> TRUE, w |-> r.w, made |-> r.made, failed_at |-> 0]
        ELSE [ok |-> FALSE,
              w |-> [w EXCEPT !.objects = cleanup_partial_upload(r.w, r.w.objects, r.made),
                              !.stats = r.w.stats,
                              !.nextId = r.w.nextId],
              made |-> {},
              failed_at |-> Cardinality(r.made) + 1]))

(**************************** RedundancyManager ****************************)
uploaded_replicas(chs, f, n) ==
    {c \in chs : c.file = f /\ c.chunk_number = n /\ c.is_replica
                 /\ c.status = "uploaded"}

RECURSIVE replicate_loop(_, _, _, _)
\* the for loop of create_replicas_for_chunk over active_nodes[:min_replicas];
\* returns [w, created]
replicate_loop(w, chunk, targets, created) ==
    IF targets = <<>> THEN [w |-> w, created |-> created]
    ELSE
      LET node == Head(targets)
          src == w.objects[chunk.storage_path]
          id == w.nextId
          path == replica_path(chunk.file, chunk.chunk_number, id)
          put == [w EXCEPT !.objects = put_object(@, node, path, src.data),
                           !.nextId = id + 1]
          row == [chunk EXCEPT !.id = id, !.storage_path = path, !.node = node,
                               !.is_replica = TRUE, !.status = "uploaded"]
          go(x, n) == With(x, LAMBDA w2 : With(Tail(targets), LAMBDA rest :
                        replicate_loop(w2, chunk, rest, n)))
      IN IF ~get_ok(w, chunk.node, chunk.storage_path) THEN go(w, created)
         ELSE IF sha256(src.data) # chunk.checksum THEN go(w, created)
         ELSE IF ~put_ok(w, node) THEN go(w, created)
         ELSE IF \E c \in put.chunks : c.file = chunk.file /\ c.is_replica
                     /\ c.chunk_number = chunk.chunk_number /\ c.node = node
              THEN go(put, created)
         ELSE IF unique_together(put.chunks, chunk.file, chunk.chunk_number, TRUE)
              THEN go(put, created)
         ELSE go([put EXCEPT !.chunks = @ \cup {row}], created + 1)

\* returns [w, created]
create_replicas_for_chunk(w, chunk, exclude_nodes, min_replicas) ==
    With(SeqOf(ActiveIds(w.nodes) \ (exclude_nodes \cup {chunk.node})),
         LAMBDA active_nodes :
      IF chunk.node = NoNode \/ chunk.is_replica \/ chunk.status # "uploaded"
         \/ active_nodes = <<>>
      THEN [w |-> w, created |-> 0]
      ELSE With(Take(active_nodes, min_replicas), LAMBDA targets :
             replicate_loop(w, chunk, targets, 0)))

RECURSIVE create_times(_, _, _, _, _, _)
\* for _ in range(replicas_to_create): returns [w, created, failed]
create_times(w, chunk, exclude, min_replicas, times, acc) ==
    IF times <= 0 THEN [w |-> w, created |-> acc.created, failed |-> acc.failed]
    ELSE With(create_replicas_for_chunk(w, chunk, exclude, min_replicas), LAMBDA r :
           With(IF r.created > 0
                THEN [acc EXCEPT !.created = @ + r.created]
                ELSE [acc EXCEPT !.failed = @ + 1],
                LAMBDA acc2 :
             With(times - 1, LAMBDA left :
               create_times(r.w, chunk, exclude, min_replicas, left, acc2))))

RECURSIVE ensure_loop(_, _, _, _)
ensure_loop(w, todo, min_replicas, st) ==
    IF todo = <<>> THEN [w |-> w, stats |-> st]
    ELSE
      LET chunk == Head(todo)
          nodes_with_chunk == {c.node : c \in {x \in w.chunks :
                                   x.file = chunk.file
                                   /\ x.chunk_number = chunk.chunk_number}}
          go(x, s) == With(x, LAMBDA w2 : With(Tail(todo), LAMBDA rest :
                        With(s, LAMBDA st2 : ensure_loop(w2, rest, min_replicas, st2))))
      IN With(Cardinality(uploaded_replicas(w.chunks, chunk.file, chunk.chunk_number)),
              LAMBDA existing :
           IF existing >= min_replicas
           THEN go(w, [st EXCEPT !.checked = @ + 1, !.already_sufficient = @ + 1])
           ELSE With(nodes_with_chunk \cap DOMAIN w.nodes, LAMBDA exclude :
                  With(create_times(w, chunk, exclude, min_replicas,
                                    min_replicas - existing,
                                    [created |-> 0, failed |-> 0]),
                       LAMBDA r :
                    go(r.w, [st EXCEPT !.checked = @ + 1,
                                       !.created = @ + r.created,
                                       !.failed = @ + r.failed]))))

\* returns [w, stats]
ensure_minimum_replicas(w, min_replicas) ==
    With(OrderChunks({c \in w.chunks : ~c.is_replica /\ c.status = "uploaded"}),
         LAMBDA todo :
      ensure_loop(w, todo, min_replicas,
                  [checked |-> 0, created |-> 0, failed |-> 0, already_sufficient |-> 0]))

RECURSIVE repair_loop(_, _, _)
\* the for loop of repair_chunk over the Uploaded replicas; returns [w, ok]
repair_loop(w, corrupt_chunk, replicas) ==
    IF replicas = <<>> THEN [w |-> w, ok |-> FALSE]
    ELSE
      LET replica == Head(replicas)
          chunk_data == w.objects[replica.storage_path].data
          new_path == chunk_path(corrupt_chunk.file, corrupt_chunk.chunk_number,
                                 w.nextId)
          fixed == [corrupt_chunk EXCEPT !.storage_path = new_path,
                                         !.status = "uploaded"]
          skip == With(Tail(replicas), LAMBDA rest : repair_loop(w, corrupt_chunk, rest))
      IN IF ~default_open_ok(w, replica.storage_path) THEN skip
         ELSE IF sha256(chunk_data) # replica.checksum THEN skip
         ELSE [w |-> [w EXCEPT !.objects = default_save(@, new_path, chunk_data),
                               !.chunks = save_chunk(@, fixed),
                               !.nextId = @ + 1],
               ok |-> TRUE]

\* returns [w, ok]
\* a repair that reports success whether or not a valid replica was found
repair_chunk_optimistic(w, corrupt_chunk) ==
    IF corrupt_chunk.is_replica THEN [w |-> w, ok |-> FALSE]
    ELSE With(OrderChunks(uploaded_replicas(w.chunks, corrupt_chunk.file,
                                            corrupt_chunk.chunk_number)),
              LAMBDA replicas :
           [repair_loop(w, corrupt_chunk, replicas) EXCEPT !.ok = TRUE])
repair_chunk(w, corrupt_chunk) ==
    IF corrupt_chunk.is_replica THEN [w |-> w, ok |-> FALSE]
    ELSE With(OrderChunks(uploaded_replicas(w.chunks, corrupt_chunk.file,
                                            corrupt_chunk.chunk_number)),
              LAMBDA replicas : repair_loop(w, corrupt_chunk, replicas))

\* what the sweep finds for one Uploaded row: "ok", or the status it sets
verify_status(w, chunk) ==
    IF ~default_reachable(w) THEN "failed"
    ELSE IF ~default_exists(w.objects, chunk.storage_path) THEN "failed"
    ELSE IF sha256(w.objects[chunk.storage_path].data) # chunk.checksum THEN "corrupt"
    ELSE "ok"

RECURSIVE verify_loop(_, _, _)
verify_loop(w, todo, st) ==
    IF todo = <<>> THEN [w |-> w, stats |-> st]
    ELSE
      LET chunk == Head(todo)
          go(x, s) == With(x, LAMBDA w2 : With(Tail(todo), LAMBDA rest :
                        With(s, LAMBDA st2 : verify_loop(w2, rest, st2))))
      IN With(verify_status(w, chunk), LAMBDA found :
           IF found = "ok" THEN go(w, [st EXCEPT !.verified = @ + 1])
           ELSE With([chunk EXCEPT !.status = found], LAMBDA marked :
                  With([w EXCEPT !.chunks = save_chunk(@, marked)], LAMBDA w1 :
                    With(repair_chunk(w1, marked), LAMBDA r :
                      go(r.w, [st EXCEPT !.verified = @ + 1,
                                         !.corrupt = @ + 1,
                                         !.repaired = @ + (IF r.ok THEN 1 ELSE 0),
                                         !.unrepairable = @ + (IF r.ok THEN 0 ELSE 1)])))))

\* returns [w, stats]
verify_and_repair_all_chunks(w) ==
    With(OrderChunks({c \in w.chunks : c.status = "uploaded"}), LAMBDA todo :
      verify_loop(w, todo,
                  [verified |-> 0, corrupt |-> 0, repaired |-> 0, unrepairable |-> 0]))

\* returns [raised, recoverable, missing, corrupt]; raised: max() of an empty
\* list (the file has rows, all of them replicas) raises ValueError
check_file_integrity(chs, f) ==
    LET rows == {c \in chs : c.file = f}
        chunk_numbers == {c.chunk_number : c \in {x \in rows : ~x.is_replica}}
        expected_numbers == 1 .. Max(chunk_numbers)
        missing == expected_numbers \ chunk_numbers
        corrupt == {c \in rows : ~c.is_replica /\ c.status \in {"corrupt", "failed"}}
        can_recover ==
            /\ \A n \in missing : uploaded_replicas(chs, f, n) # {}
            /\ \A c \in corrupt : uploaded_replicas(chs, f, c.chunk_number) # {}
    IN IF rows = {}
       THEN [raised |-> FALSE, recoverable |-> FALSE, missing |-> {}, corrupt |-> {}]
       ELSE IF chunk_numbers = {}
       THEN [raised |-> TRUE, recoverable |-> FALSE, missing |-> {}, corrupt |-> {}]
       ELSE [raised |-> FALSE, recoverable |-> can_recover, missing |-> missing,
             corrupt |-> {c.chunk_number : c \in corrupt}]

\* returns [w, ok]
\* a replica creation that reports success without having read the source
create_replica_on_node_unchecked(w, chunk, target_node) ==
    LET id == w.nextId
        path == replica_path(chunk.file, chunk.chunk_number, id)
        chunk_data == w.objects[chunk.storage_path].data
        put == [w EXCEPT !.objects = put_object(@, target_node, path, chunk_data),
                         !.nextId = id + 1]
        row == [chunk EXCEPT !.id = id, !.storage_path = path, !.node = target_node,
                             !.is_replica = TRUE, !.status = "uploaded"]
    IN IF chunk.is_replica \/ chunk.status # "uploaded" \/ target_node = NoNode
       THEN [w |-> w, ok |-> FALSE]
       ELSE IF \E c \in w.chunks : c.file = chunk.file /\ c.is_replica
                   /\ c.chunk_number = chunk.chunk_number /\ c.node = target_node
       THEN [w |-> w, ok |-> TRUE]
       ELSE IF ~get_ok(w, chunk.node, chunk.storage_path)
       THEN [w |-> w, ok |-> TRUE]
       ELSE IF sha256(chunk_data) # chunk.checksum THEN [w |-> w, ok |-> FALSE]
       ELSE IF ~put_ok(w, target_node) THEN [w |-> w, ok |-> FALSE]
       ELSE IF unique_together(put.chunks, chunk.file, chunk.chunk_number, TRUE)
       THEN [w |-> put, ok |-> TRUE]
       ELSE [w |-> [put EXCEPT !.chunks = @ \cup {row}], ok |-> TRUE]
create_replica_on_node(w, chunk, target_node) ==
    LET id == w.nextId
        path == replica_path(chunk.file, chunk.chunk_number, id)
        chunk_data == w.objects[chunk.storage_path].data
        put == [w EXCEPT !.objects = put_object(@, target_node, path, chunk_data),
                         !.nextId = id + 1]
        row == [chunk EXCEPT !.id = id, !.storage_path = path, !.node = target_node,
                             !.is_replica = TRUE, !.status = "uploaded"]
    IN IF chunk.is_replica \/ chunk.status # "uploaded" \/ target_node = NoNode
       THEN [w |-> w, ok |-> FALSE]
       ELSE IF \E c \in w.chunks : c.file = chunk.file /\ c.is_replica
                   /\ c.chunk_number = chunk.chunk_number /\ c.node = target_node
       THEN [w |-> w, ok |-> TRUE]
       ELSE IF ~get_ok(w, chunk.node, chunk.storage_path)
       THEN [w |-> w, ok |-> FALSE]
       ELSE IF sha256(chunk_data) # chunk.checksum THEN [w |-> w, ok |-> FALSE]
       ELSE IF ~put_ok(w, target_node) THEN [w |-> w, ok |-> FALSE]
       ELSE IF unique_together(put.chunks, chunk.file, chunk.chunk_number, TRUE)
       THEN [w |-> put, ok |-> FALSE]
       ELSE [w |-> [put EXCEPT !.chunks = @ \cup {row}], ok |-> TRUE]

(******************** NodeSelector / reassembly / download *****************)
pref_key(f, n) == <<f, n>>
cache_set(c, k, v) == (k :> v) @@ c
cache_delete(c, k) == [x \in DOMAIN c \ {k} |-> c[x]]

\* returns [w, raised, found, chunk]
select_node_for_retrieval(w, f, n) ==
    LET key == pref_key(f, n)
        cached == key \in DOMAIN w.pref
        node_ok == cached /\ w.pref[key] \in DOMAIN w.nodes
                          /\ w.nodes[w.pref[key]].status = "active"
        on_node == {c \in w.chunks : c.file = f /\ c.chunk_number = n
                                     /\ c.node = w.pref[key] /\ c.status = "uploaded"}
        w1 == IF cached THEN [w EXCEPT !.pref = cache_delete(@, key)] ELSE w
        prim == {c \in w.chunks : c.file = f /\ c.chunk_number = n
                                  /\ ~c.is_replica /\ c.status = "uploaded"}
        reps == OrderChunks(uploaded_replicas(w.chunks, f, n))
        hit(c) == [w |-> [w1 EXCEPT !.pref = cache_set(@, key, c.node)],
                   raised |-> FALSE, found |-> TRUE, chunk |-> c]
        none == [w |-> w1, raised |-> FALSE, found |-> FALSE, chunk |-> [id |-> 0]]
    IN IF node_ok /\ Cardinality(on_node) = 1
       THEN [w |-> w, raised |-> FALSE, found |-> TRUE,
             chunk |-> CHOOSE c \in on_node : TRUE]
       ELSE IF node_ok /\ Cardinality(on_node) > 1
       THEN [none EXCEPT !.w = w, !.raised = TRUE]
       ELSE IF prim # {}
       THEN With(CHOOSE x \in prim : TRUE, LAMBDA c :
              IF c.node = NoNode THEN [none EXCEPT !.raised = TRUE] ELSE hit(c))
       ELSE With(reps, LAMBDA rs :
              IF rs = <<>> THEN none
              ELSE IF rs[1].node = NoNode THEN [none EXCEPT !.raised = TRUE]
              ELSE hit(rs[1]))

RECURSIVE reassemble_loop_unverified(_, _, _, _)
\* a loop that writes the bytes of the selected row whatever they hash to
reassemble_loop_unverified(w, f, todo, buffer) ==
    IF todo = <<>>
    THEN [w |-> w, ok |-> TRUE, data |-> buffer, err |-> "", at |-> 0, read |-> <<>>]
    ELSE With(select_node_for_retrieval(w, f, Head(todo)), LAMBDA sel :
      LET n == Head(todo)
          chunk == sel.chunk
          chunk_data == sel.w.objects[chunk.storage_path].data
          alt_data(c) == sel.w.objects[c.storage_path].data
          fail(e) == [w |-> sel.w, ok |-> FALSE, data |-> <<>>, err |-> e, at |-> n,
                      read |-> <<>>]
          go(d, id) == With(Tail(todo), LAMBDA rest : With(buffer \o d, LAMBDA buf :
                         With(reassemble_loop_unverified(sel.w, f, rest, buf), LAMBDA r :
                           IF r.ok THEN [r EXCEPT !.read = <<id>> \o @] ELSE r)))
      IN IF sel.raised THEN fail("error")
         ELSE IF ~sel.found THEN fail("Failed to retrieve chunk")
         ELSE IF ~default_open_ok(sel.w, chunk.storage_path)
         THEN fail("Failed to read chunk")
         ELSE go(chunk_data, chunk.id))

RECURSIVE reassemble_loop(_, _, _, _)
\* the for loop over expected_numbers; returns [w, ok, data, err, at, read],
\* read being the ids of the rows whose bytes were written, in order
reassemble_loop(w, f, todo, buffer) ==
    IF todo = <<>>
    THEN [w |-> w, ok |-> TRUE, data |-> buffer, err |-> "", at |-> 0, read |-> <<>>]
    ELSE With(select_node_for_retrieval(w, f, Head(todo)), LAMBDA sel :
      LET n == Head(todo)
          chunk == sel.chunk
          chunk_data == sel.w.objects[chunk.storage_path].data
          alt_data(c) == sel.w.objects[c.storage_path].data
          fail(e) == [w |-> sel.w, ok |-> FALSE, data |-> <<>>, err |-> e, at |-> n,
                      read |-> <<>>]
          go(d, id) == With(Tail(todo), LAMBDA rest : With(buffer \o d, LAMBDA buf :
                         With(reassemble_loop(sel.w, f, rest, buf), LAMBDA r :
                           IF r.ok THEN [r EXCEPT !.read = <<id>> \o @] ELSE r)))
      IN IF sel.raised THEN fail("error")
         ELSE IF ~sel.found THEN fail("Failed to retrieve chunk")
         ELSE IF ~default_open_ok(sel.w, chunk.storage_path)
         THEN fail("Failed to read chunk")
         ELSE IF sha256(chunk_data) = chunk.checksum THEN go(chunk_data, chunk.id)
         ELSE With(OrderChunks({c \in sel.w.chunks :
                       c.file = f /\ c.chunk_number = n /\ c.status = "uploaded"
                       /\ c.id # chunk.id}),
                   LAMBDA others :
                IF others = <<>> THEN fail("corrupted and no alternatives")
                ELSE IF ~default_open_ok(sel.w, others[1].storage_path)
                THEN fail("Failed to read chunk")
                ELSE IF sha256(alt_data(others[1])) # others[1].checksum
                THEN fail("All copies corrupted")
                ELSE go(alt_data(others[1]), others[1].id)))

\* returns [w, ok, data, err, at, read]
reassemble_file_optimized(w, f) ==
    With({c.chunk_number : c \in {x \in w.chunks : x.file = f /\ x.status = "uploaded"}},
         LAMBDA chunk_numbers :
      LET stop(e) == [w |-> w, ok |-> FALSE, data |-> <<>>, err |-> e, at |-> 0,
                      read |-> <<>>]
      IN IF chunk_numbers = {} THEN stop("No chunks found")
         ELSE With(1 .. Max(chunk_numbers), LAMBDA expected_numbers :
           IF expected_numbers \ chunk_numbers # {} THEN stop("Missing chunks")
           ELSE With(SeqOf(expected_numbers), LAMBDA todo :
                  reassemble_loop(w, f, todo, <<>>))))

\* FileCache.get_cached_file: bytes, or None (an empty value counts as a miss)
get_cached_file(w, f) == IF f \in DOMAIN w.fcache THEN w.fcache[f] ELSE <<>>

\* views.download_file; returns [w, ok, cached, data, err, at]
download_file(w, f) ==
    With(get_cached_file(w, f), LAMBDA cached_file :
      IF cached_file # <<>>
      THEN [w |-> w, ok |-> TRUE, cached |-> TRUE, data |-> cached_file,
            err |-> "", at |-> 0, read |-> <<>>]
      ELSE With(reassemble_file_optimized(w, f), LAMBDA r :
        IF ~r.ok
        THEN [w |-> r.w, ok |-> FALSE, cached |-> FALSE, data |-> <<>>,
              err |-> r.err, at |-> r.at, read |-> <<>>]
        ELSE [w |-> [r.w EXCEPT !.fcache = cache_set(@, f, r.data)], ok |-> TRUE,
              cached |-> FALSE, data |-> r.data, err |-> "", at |-> 0,
              read |-> r.read]))

(********************* process_pending_replications ************************)
RECURSIVE drain_loop(_, _, _, _)
\* the for loop of Command.handle; chs0 are the chunk rows select_related
\* loaded with the pending rows
drain_loop(w, todo, chs0, limit) ==
    IF todo = <<>> THEN w
    ELSE
      LET pending_rep == CHOOSE p \in w.pending : p.id = Head(todo)
          chunk == CHOOSE c \in chs0 : c.id = pending_rep.chunk
          again(x) == [x EXCEPT !.pending = (@ \ {pending_rep}) \cup
                           {[pending_rep EXCEPT !.attempts = @ + 1]}]
          go(x) == With(x, LAMBDA w2 : With(Tail(todo), LAMBDA rest :
                     drain_loop(w2, rest, chs0, limit)))
      IN IF pending_rep.attempts >= limit THEN go(w)
         ELSE IF ~check_node_availability(w, pending_rep.target_node) THEN go(again(w))
         ELSE With(create_replica_on_node(w, chunk, pending_rep.target_node), LAMBDA r :
                IF r.ok THEN go([r.w EXCEPT !.pending = @ \ {pending_rep}])
                ELSE go(again(r.w)))

\* a drain that gives a row up one attempt late
process_pending_replications_late(w, limit) ==
    With(SeqOf({p.id : p \in w.pending}), LAMBDA todo :
      drain_loop(w, todo, w.chunks, limit + 1))

process_pending_replications(w, limit) ==
    With(SeqOf({p.id : p \in w.pending}), LAMBDA todo :
      drain_loop(w, todo, w.chunks, limit))

(************************ node administration ******************************)
\* manage_nodes add: FileNode.objects.create(..., priority, is_primary),
\* status left at its default 'active'
add_node(nd, id, priority, primary) ==
    (id :> [status |-> "active", is_primary |-> primary, priority |-> priority]) @@ nd

\* views.change_node_status (POST with a valid status); returns w
change_node_status(w, n, status) ==
    With([w EXCEPT !.nodes[n].status = status, !.stats = NoStats], LAMBDA w1 :
      With(IF w.nodes[n].status = "active" /\ status # "active" /\ w.nodes[n].is_primary
           THEN get_primary_node(w1).w ELSE w1,
           LAMBDA w2 :
        IF w.nodes[n].status # "active" /\ status = "active"
           /\ \E p \in w2.pending : p.target_node = n
        THEN process_pending_replications(w2, max_attempts)
        ELSE w2))

\* api.update_node_status, manage_nodes change_status and the activate /
\* deactivate / maintenance actions of admin_node_management:
\* node.status = ...; node.save()
update_node_status(w, n, status) == [w EXCEPT !.nodes[n].status = status]
change_status(w, n, status) == [w EXCEPT !.nodes[n].status = status]
admin_set_status(w, n, status) == [w EXCEPT !.nodes[n].status = status]

\* admin_node_management 'delete': refused while the node has chunk rows
admin_delete_node(w, n) ==
    IF stored_chunks_count(w.chunks, n) > 0 THEN w
    ELSE [w EXCEPT !.nodes = [x \in DOMAIN w.nodes \ {n} |-> w.nodes[x]],
                   !.pending = {p \in @ : p.target_node # n}]

\* FileNodeAdmin of the Django admin site: the row is deleted and
\* FileChunk.node (on_delete=SET_NULL) of its chunk rows becomes NULL
delete_file_node(w, n) ==
    [w EXCEPT !.nodes = [x \in DOMAIN w.nodes \ {n} |-> w.nodes[x]],
              !.chunks = {IF c.node = n THEN [c EXCEPT !.node = NoNode] ELSE c : c \in @},
              !.pending = {p \in @ : p.target_node # n}]

(****************************** upload view ********************************)
\* an upload that reports failure when a replica could not be made
upload_file_strict(w, data, size) ==
    IF get_available_nodes_count(w) < minimum_nodes_required
    THEN [w |-> w, status |-> "rejected", file |-> 0, chunked |-> FALSE, failed_at |-> 0]
    ELSE IF data = <<>>
    THEN [w |-> w, status |-> "invalid", file |-> 0, chunked |-> FALSE, failed_at |-> 0]
    ELSE
      With(Cardinality(DOMAIN w.files) + 1, LAMBDA f :
        With([w EXCEPT !.files = (f :> [data |-> data, checksum |-> sha256(data),
                                        size_bytes |-> Len(data)]) @@ @],
             LAMBDA w1 :
          With(chunk_file(w1, f, data, size), LAMBDA c :
            IF ~c.ok
            THEN [w |-> [c.w EXCEPT !.files = w.files], status |-> "failed",
                  file |-> 0, chunked |-> FALSE, failed_at |-> c.failed_at]
            ELSE With(ensure_minimum_replicas(c.w, 1), LAMBDA e :
                   IF e.stats.failed > 0
                   THEN [w |-> e.w, status |-> "failed", file |-> f, chunked |-> TRUE,
                         failed_at |-> 0]
                   ELSE [w |-> e.w, status |-> "ok", file |-> f, chunked |-> TRUE,
                         failed_at |-> 0]))))

\* views.upload_file (POST); returns [w, status, file, chunked, failed_at];
\* chunked: chunk_file returned without raising
upload_file(w, data, size) ==
    IF get_available_nodes_count(w) < minimum_nodes_required
    THEN [w |-> w, status |-> "rejected", file |-> 0, chunked |-> FALSE, failed_at |-> 0]
    ELSE IF data = <<>>        \* forms.FileField refuses an empty file
    THEN [w |-> w, status |-> "invalid", file |-> 0, chunked |-> FALSE, failed_at |-> 0]
    ELSE
      With(Cardinality(DOMAIN w.files) + 1, LAMBDA f :
        With([w EXCEPT !.files = (f :> [data |-> data, checksum |-> sha256(data),
                                        size_bytes |-> Len(data)]) @@ @],
             LAMBDA w1 :
          With(chunk_file(w1, f, data, size), LAMBDA c :
            IF ~c.ok
            THEN [w |-> [c.w EXCEPT !.files = w.files], status |-> "failed",
                  file |-> 0, chunked |-> FALSE, failed_at |-> c.failed_at]
            ELSE With(ensure_minimum_replicas(c.w, 1), LAMBDA e :
                   [w |-> e.w, status |-> "ok", file |-> f, chunked |-> TRUE,
                    failed_at |-> 0]))))

(************************ FileChunk.verify_integrity ************************)
\* returns [w, ok]: reads the row's object through default_storage; a digest
\* mismatch saves the row as Corrupt, any exception saves it as Failed
verify_integrity(w, chunk) ==
    IF ~default_open_ok(w, chunk.storage_path)
    THEN [w |-> [w EXCEPT !.chunks = save_chunk(@, [chunk EXCEPT !.status = "failed"])],
          ok |-> FALSE]
    ELSE IF sha256(w.objects[chunk.storage_path].data) # chunk.checksum
    THEN [w |-> [w EXCEPT !.chunks = save_chunk(@, [chunk EXCEPT !.status = "corrupt"])],
          ok |-> FALSE]
    ELSE [w |-> w, ok |-> TRUE]

(********************************* jobs ************************************)
RECURSIVE integrity_loop(_, _)
integrity_loop(w, todo) ==
    IF todo = <<>> THEN w
    ELSE With(verify_integrity(w, Head(todo)).w, LAMBDA w2 :
           With(Tail(todo), LAMBDA rest : integrity_loop(w2, rest)))

\* jobs.verify_chunk_integrity: verify_integrity on every Uploaded row
verify_chunk_integrity(w) ==
    With(OrderChunks({c \in w.chunks : c.status = "uploaded"}), LAMBDA todo :
      integrity_loop(w, todo))

\* ensure_minimum_replicas whose query for the Uploaded primaries has
\* returned when jobs.verify_chunk_integrity runs in another process: the
\* loop works on the rows as they were read
ensure_minimum_replicas_swept(w, min_replicas) ==
    With(OrderChunks({c \in w.chunks : ~c.is_replica /\ c.status = "uploaded"}),
         LAMBDA todo :
      With(verify_chunk_integrity(w), LAMBDA w1 :
        ensure_loop(w1, todo, min_replicas,
                    [checked |-> 0, created |-> 0, failed |-> 0,
                     already_sufficient |-> 0])))

\* replicas/<user>/<file>_<chunk_number>_<target_node.id>.chunk
job_replica_path(f, n, node) ==
    [kind |-> "replicas", file |-> f, chunk_number |-> n, nonce |-> 0 - node]

\* one pass of the body of "for _ in range(replicas_to_create)" with
\* random.choice having returned target_node; an exception leaves w as it is.
\* default_storage.save never replaces an object that has the name.
place_replica(w, chunk, target_node) ==
    LET path == job_replica_path(chunk.file, chunk.chunk_number, target_node)
        chunk_data == w.objects[chunk.storage_path].data
        saved == IF path \in DOMAIN w.objects THEN w
                 ELSE [w EXCEPT !.objects = default_save(@, path, chunk_data)]
        row == [chunk EXCEPT !.id = w.nextId, !.storage_path = path,
                             !.node = target_node, !.is_replica = TRUE,
                             !.status = "uploaded"]
    IN IF ~default_open_ok(w, chunk.storage_path) THEN w
       ELSE IF unique_together(w.chunks, chunk.file, chunk.chunk_number, TRUE)
       THEN saved
       ELSE [saved EXCEPT !.chunks = @ \cup {row}, !.nextId = @ + 1]

\* the nodes random.choice draws from for one replica of chunk
replica_candidates(w, chunk, active_nodes) ==
    LET nodes_with_chunk == {c.node : c \in {x \in w.chunks :
                                 x.file = chunk.file
                                 /\ x.chunk_number = chunk.chunk_number}}
        available_nodes == active_nodes \ nodes_with_chunk
    IN IF available_nodes = {} THEN active_nodes ELSE available_nodes

RECURSIVE place_times(_, _, _, _)
\* the worlds "for _ in range(replicas_to_create)" can end in
place_times(w, chunk, active_nodes, times) ==
    IF times <= 0 THEN {w}
    ELSE UNION {place_times(place_replica(w, chunk, n), chunk, active_nodes, times - 1)
                  : n \in replica_candidates(w, chunk, active_nodes)}

RECURSIVE replicas_job_loop(_, _, _, _)
replicas_job_loop(w, todo, active_nodes, min_replicas) ==
    IF todo = <<>> THEN {w}
    ELSE
      LET chunk == Head(todo)
          existing_replicas ==
              Cardinality(uploaded_replicas(w.chunks, chunk.file, chunk.chunk_number))
      IN UNION {replicas_job_loop(w2, Tail(todo), active_nodes, min_replicas)
                  : w2 \in place_times(w, chunk, active_nodes,
                                       min_replicas - existing_replicas)}

\* jobs.create_chunk_replicas: the set of worlds it can end in, one for each
\* sequence of values random.choice can return
create_chunk_replicas(w, min_replicas) ==
    IF ActiveIds(w.nodes) = {} THEN {w}
    ELSE replicas_job_loop(w, OrderChunks({c \in w.chunks : ~c.is_replica
                                                          /\ c.status = "uploaded"}),
                           ActiveIds(w.nodes), min_replicas)

(****************************** SystemHealth *******************************)
\* thresholds that are met only when exceeded
get_overall_status_strict(nd, chs) ==
    LET total_nodes == Cardinality(DOMAIN nd)
        active_nodes == Cardinality(ActiveIds(nd))
        total_chunks == Cardinality(chs)
        corrupt_chunks == Cardinality({c \in chs : c.status = "corrupt"})
        failed_chunks == Cardinality({c \in chs : c.status = "failed"})
        good == total_chunks - corrupt_chunks - failed_chunks
        node_below(p) == IF total_nodes > 0
                         THEN active_nodes * 100 <= p * total_nodes ELSE 0 <= p
        chunk_below(p) == IF total_chunks > 0
                          THEN good * 100 <= p * total_chunks ELSE 100 <= p
    IN IF node_below(50) \/ chunk_below(80) THEN "critical"
       ELSE IF node_below(75) \/ chunk_below(95) THEN "warning"
       ELSE "healthy"

\* get_overall_status()['status']; percentages compared as cross products
get_overall_status(nd, chs) ==
    LET total_nodes == Cardinality(DOMAIN nd)
        active_nodes == Cardinality(ActiveIds(nd))
        total_chunks == Cardinality(chs)
        corrupt_chunks == Cardinality({c \in chs : c.status = "corrupt"})
        failed_chunks == Cardinality({c \in chs : c.status = "failed"})
        good == total_chunks - corrupt_chunks - failed_chunks
        \* node_health < p and chunk_health < p, for a percentage p
        node_below(p) == IF total_nodes > 0
                         THEN active_nodes * 100 < p * total_nodes ELSE 0 < p
        chunk_below(p) == IF total_chunks > 0
                          THEN good * 100 < p * total_chunks ELSE 100 < p
    IN IF node_below(50) \/ chunk_below(80) THEN "critical"
       ELSE IF node_below(75) \/ chunk_below(95) THEN "warning"
       ELSE "healthy"

\* get_file_health(stored_file): [can_recover, health_status, missing, corrupt, failed]
get_file_health(chs, f) ==
    LET rows == {c \in chs : c.file = f}
        primaries == {c \in rows : ~c.is_replica}
        corrupt_chunks == Cardinality({c \in primaries : c.status = "corrupt"})
        failed_chunks == Cardinality({c \in primaries : c.status = "failed"})
        chunk_numbers == {c.chunk_number : c \in primaries}
        expected_numbers == IF chunk_numbers = {} THEN {} ELSE 1 .. Max(chunk_numbers)
        missing_chunks == expected_numbers \ chunk_numbers
        can_recover ==
            /\ \A n \in missing_chunks : uploaded_replicas(chs, f, n) # {}
            /\ \A c \in primaries :
                  c.status \in {"corrupt", "failed"}
                  => uploaded_replicas(chs, f, c.chunk_number) # {}
    IN [can_recover |-> can_recover,
        health_status |-> IF ~can_recover THEN "critical"
                          ELSE IF corrupt_chunks > 0 \/ failed_chunks > 0
                                  \/ missing_chunks # {} THEN "warning"
                          ELSE "healthy",
        missing |-> missing_chunks, corrupt |-> corrupt_chunks,
        failed |-> failed_chunks]

(***************************** views.repair_file ***************************)
RECURSIVE repair_rows(_, _)
\* for chunk in corrupt_chunks: redundancy_manager.repair_chunk(chunk)
repair_rows(w, todo) ==
    IF todo = <<>> THEN w
    ELSE With(repair_chunk(w, Head(todo)).w, LAMBDA w2 :
           With(Tail(todo), LAMBDA rest : repair_rows(w2, rest)))

RECURSIVE recover_missing(_, _, _)
\* for chunk_num in missing_chunks: a new primary row made from the Uploaded
\* replica, its object saved through default_storage, node = replica.node
recover_missing(w, f, todo) ==
    IF todo = <<>> THEN w
    ELSE
      LET chunk_num == Head(todo)
          found == uploaded_replicas(w.chunks, f, chunk_num)
          replica == CHOOSE r \in found : \A x \in found : r.id <= x.id
          chunk_data == w.objects[replica.storage_path].data
          storage_path == chunk_path(f, chunk_num, w.nextId)
          row == [replica EXCEPT !.id = w.nextId, !.storage_path = storage_path,
                                 !.is_replica = FALSE, !.status = "uploaded"]
          go(x) == With(x, LAMBDA w2 : With(Tail(todo), LAMBDA rest :
                     recover_missing(w2, f, rest)))
      IN IF found = {} THEN go(w)
         ELSE IF ~default_open_ok(w, replica.storage_path) THEN go(w)
         ELSE IF sha256(chunk_data) # replica.checksum THEN go(w)
         ELSE go([w EXCEPT !.objects = default_save(@, storage_path, chunk_data),
                           !.chunks = @ \cup {row},
                           !.nextId = @ + 1])

\* views.repair_file; returns w
repair_file(w, f) ==
    IF get_file_health(w.chunks, f).health_status = "healthy" THEN w
    ELSE
      With(OrderChunks({c \in w.chunks : c.file = f /\ ~c.is_replica
                                        /\ c.status \in {"corrupt", "failed"}}),
           LAMBDA corrupt_chunks :
        With(repair_rows(w, corrupt_chunks), LAMBDA w1 :
          With(SeqOf(get_file_health(w1.chunks, f).missing), LAMBDA missing_chunks :
            With(recover_missing(w1, f, missing_chunks), LAMBDA w2 :
              ensure_minimum_replicas(w2, 2).w))))

(******************************** actions **********************************)
Streams == {[i \in 1 .. n |-> i % 2] : n \in 0 .. MaxLen}

Fits(w) == w.nextId <= MaxIds + 1

UploadFile(data, size) ==
    /\ Cardinality(DOMAIN files) < MaxFiles
    /\ \E r \in {upload_file(World, data, size)} :
       /\ Fits(r.w)
       /\ Commit(r.w)
       /\ result' = [op |-> "upload", status |-> r.status, file |-> r.file,
                     chunk_size |-> size, chunked |-> r.chunked]
       /\ UNCHANGED <<nextNodeId, up, defaultBackend, row_order, running, offline_nodes, events, damaged, enqueued>>

EnsureMinimumReplicas(min_replicas) ==
    /\ chunks # {}
    /\ \E r \in {ensure_minimum_replicas(World, min_replicas)} :
       /\ Fits(r.w)
       /\ Commit(r.w)
       /\ result' = [op |-> "ensure", min_replicas |-> min_replicas, stats |-> r.stats]
       /\ UNCHANGED <<nextNodeId, up, defaultBackend, row_order, running, offline_nodes, events, damaged, enqueued>>

VerifyAndRepairAllChunks ==
    /\ chunks # {}
    /\ \E r \in {verify_and_repair_all_chunks(World)} :
       /\ Fits(r.w)
       /\ Commit(r.w)
       /\ result' = [op |-> "verify", stats |-> r.stats]
       /\ UNCHANGED <<nextNodeId, up, defaultBackend, row_order, running, offline_nodes, events, damaged, enqueued>>

DownloadFile(f) ==
    /\ f \in DOMAIN files
    /\ \E r \in {download_file(World, f)} :
       /\ Commit(r.w)
       /\ result' = [op |-> "download", file |-> f, ok |-> r.ok, cached |-> r.cached,
                     data |-> r.data, err |-> r.err, at |-> r.at, read |-> r.read]
       /\ UNCHANGED <<nextNodeId, up, defaultBackend, row_order, running, offline_nodes, events, damaged, enqueued>>

ChangeNodeStatus(n, status) ==
    /\ n \in DOMAIN nodes
    /\ events < MaxEvents
    /\ \E w \in {change_node_status(World, n, status)} :
       /\ Fits(w)
       /\ Commit(w)
       /\ events' = events + 1
       /\ result' = [op |-> "status"]
       /\ UNCHANGED <<nextNodeId, up, defaultBackend, row_order, running, offline_nodes, damaged, enqueued>>

\* the node's MinIO server stops / starts answering
NodeDown(n) ==
    /\ n \in DOMAIN nodes
    /\ up[n]
    /\ events < MaxEvents
    /\ up' = [up EXCEPT ![n] = FALSE]
    /\ events' = events + 1
    /\ UNCHANGED <<nodes, nextNodeId, defaultBackend, row_order, running, offline_nodes, files, chunks, objects, pending,
                   stats, pref, fcache, nextId, damaged, enqueued, result>>

NodeUp(n) ==
    /\ n \in DOMAIN nodes
    /\ ~up[n]
    /\ up' = [up EXCEPT ![n] = TRUE]
    /\ UNCHANGED <<nodes, nextNodeId, defaultBackend, row_order, running, offline_nodes, files, chunks, objects, pending,
                   stats, pref, fcache, nextId, events, damaged, enqueued, result>>

Referenced == {c.storage_path : c \in chunks} \cap DOMAIN objects
Damaged(data) == [data EXCEPT ![1] = 1 - @]

\* an object referenced by a chunk row is overwritten with different bytes
CorruptObject(path) ==
    /\ path \in Referenced
    /\ damaged < MaxDamaged
    /\ objects' = [objects EXCEPT ![path].data = Damaged(@)]
    /\ damaged' = damaged + 1
    /\ UNCHANGED <<nodes, nextNodeId, up, defaultBackend, row_order, running, offline_nodes, files, chunks, pending,
                   stats, pref, fcache, nextId, events, enqueued, result>>

\* an object referenced by a chunk row is deleted from its store
DeleteObject(path) ==
    /\ path \in Referenced
    /\ damaged < MaxDamaged
    /\ objects' = default_delete(objects, path)
    /\ damaged' = damaged + 1
    /\ UNCHANGED <<nodes, nextNodeId, up, defaultBackend, row_order, running, offline_nodes, files, chunks, pending,
                   stats, pref, fcache, nextId, events, enqueued, result>>

\* cache entries time out (60 s for the load statistics, 1 h for the others)
ExpireStats ==
    /\ ~stats.none
    /\ stats' = NoStats
    /\ UNCHANGED <<nodes, nextNodeId, up, defaultBackend, row_order, running, offline_nodes, files, chunks, objects,
                   pending, pref, fcache, nextId, events, damaged, enqueued, result>>

ExpireFileCache ==
    /\ DOMAIN fcache # {} \/ DOMAIN pref # {}
    /\ fcache' = <<>>
    /\ pref' = <<>>
    /\ UNCHANGED <<nodes, nextNodeId, up, defaultBackend, row_order, running, offline_nodes, files, chunks, objects,
                   pending, stats, nextId, events, damaged, enqueued, result>>

Deployed == [n \in NodeIds |->
                [status |-> "active", is_primary |-> FALSE, priority |-> 0]]

\* rows of equal sort key come back oldest first, or newest first
InsertionOrder == [n \in NodeIds |-> n]
RowOrders == {InsertionOrder, [n \in NodeIds |-> MaxNodes + 1 - n]}

\* no file, row, object, pending row or cache entry
NothingStored ==
    /\ files = <<>>
    /\ chunks = {}
    /\ objects = <<>>
    /\ pending = {}
    /\ stats = NoStats
    /\ pref = <<>>
    /\ fcache = <<>>
    /\ nextId = 1
    /\ events = 0
    /\ damaged = 0
    /\ enqueued = 0
    /\ offline_nodes = {}
    /\ row_order = InsertionOrder
    /\ running = NoneRunning
    /\ result = NoResult

\* nothing stored yet, every MinIO server answering
Empty ==
    /\ up = [n \in NodeIds |-> TRUE]
    /\ NothingStored

\* a deployment whose nodes are all registered and Active
Init ==
    /\ nodes = Deployed
    /\ nextNodeId = MaxNodes + 1
    /\ defaultBackend \in {Local} \cup DOMAIN Deployed
    /\ Empty

Next ==
    \/ \E data \in Streams, size \in 1 .. MaxChunkSize : UploadFile(data, size)
    \/ \E m \in 1 .. MaxMinReplicas : EnsureMinimumReplicas(m)
    \/ VerifyAndRepairAllChunks
    \/ \E f \in DOMAIN files : DownloadFile(f)
    \/ \E n \in DOMAIN nodes, st \in StatusChoices : ChangeNodeStatus(n, st)
    \/ \E n \in DOMAIN nodes : NodeDown(n)
    \/ \E n \in DOMAIN nodes : NodeUp(n)
    \/ \E path \in DOMAIN objects : CorruptObject(path)
    \/ \E path \in DOMAIN objects : DeleteObject(path)
    \/ ExpireStats
    \/ ExpireFileCache

Spec == Init /\ [][Next]_vars


(*********************** node registry handlers ****************************)
ApiStatuses == StatusChoices \cup {"other"}     \* the API stores any string

\* manage_nodes add --priority P [--primary]
AddNode(priority, primary) ==
    /\ nextNodeId <= MaxAdded
    /\ nodes' = add_node(nodes, nextNodeId, priority, primary)
    /\ nextNodeId' = nextNodeId + 1
    /\ result' = [op |-> "add_node"]
    /\ UNCHANGED <<up, defaultBackend, row_order, running, offline_nodes, files, chunks, objects, pending, stats, pref,
                   fcache, nextId, events, damaged, enqueued>>

\* POST api/nodes/<id>/status
UpdateNodeStatus(n, status) ==
    /\ n \in DOMAIN nodes
    /\ Commit(update_node_status(World, n, status))
    /\ result' = [op |-> "api_status"]
    /\ UNCHANGED <<nextNodeId, up, defaultBackend, row_order, running, offline_nodes, events, damaged, enqueued>>

\* manage_nodes status --node-id N --status S
ChangeStatus(n, status) ==
    /\ n \in DOMAIN nodes
    /\ Commit(change_status(World, n, status))
    /\ result' = [op |-> "change_status"]
    /\ UNCHANGED <<nextNodeId, up, defaultBackend, row_order, running, offline_nodes, events, damaged, enqueued>>

AdminActions == {"activate", "deactivate", "maintenance", "delete"}

\* POST to admin_node_management
AdminNodeManagement(n, action) ==
    /\ n \in DOMAIN nodes
    /\ Commit(CASE action = "activate" -> admin_set_status(World, n, "active")
                [] action = "deactivate" -> admin_set_status(World, n, "inactive")
                [] action = "maintenance" -> admin_set_status(World, n, "maintenance")
                [] action = "delete" -> admin_delete_node(World, n))
    /\ result' = [op |-> "admin"]
    /\ UNCHANGED <<nextNodeId, up, defaultBackend, row_order, running, offline_nodes, events, damaged, enqueued>>

\* manage_nodes elect-primary
ElectPrimary ==
    /\ \E r \in {get_primary_node(World)} :
       /\ Commit(r.w)
       /\ result' = [op |-> "elect", node |-> r.node]
    /\ UNCHANGED <<nextNodeId, up, defaultBackend, row_order, running, offline_nodes, events, damaged, enqueued>>

\* an empty registry
InitNodes ==
    /\ nodes = <<>>
    /\ nextNodeId = 1
    /\ defaultBackend = Local
    /\ Empty

NextNodes ==
    \/ \E priority \in 0 .. MaxPriority, primary \in BOOLEAN : AddNode(priority, primary)
    \/ \E n \in DOMAIN nodes, st \in StatusChoices : ChangeNodeStatus(n, st)
    \/ \E n \in DOMAIN nodes, st \in ApiStatuses : UpdateNodeStatus(n, st)
    \/ \E n \in DOMAIN nodes, st \in StatusChoices : ChangeStatus(n, st)
    \/ \E n \in DOMAIN nodes, a \in AdminActions : AdminNodeManagement(n, a)
    \/ ElectPrimary

SpecNodes == InitNodes /\ [][NextNodes]_vars

\* an empty registry on a database of either row order
InitPrimary ==
    /\ nodes = <<>>
    /\ nextNodeId = 1
    /\ defaultBackend = Local
    /\ up = [n \in NodeIds |-> TRUE]
    /\ files = <<>>
    /\ chunks = {}
    /\ objects = <<>>
    /\ pending = {}
    /\ stats = NoStats
    /\ pref = <<>>
    /\ fcache = <<>>
    /\ nextId = 1
    /\ events = 0
    /\ damaged = 0
    /\ enqueued = 0
    /\ offline_nodes = {}
    /\ row_order \in RowOrders
    /\ running = NoneRunning
    /\ result = NoResult

SpecPrimary == InitPrimary /\ [][NextNodes]_vars

(************************* pending replications ****************************)
\* A replica is wanted on an Active node that holds no copy of the chunk and
\* does not answer: a PendingReplication row is stored instead.
EnqueuePending(c, n) ==
    /\ enqueued < MaxPending
    /\ c \in chunks
    /\ ~c.is_replica
    /\ c.status = "uploaded"
    /\ n \in ActiveIds(nodes)
    /\ ~check_node_availability(World, n)
    /\ ~\E x \in chunks : x.file = c.file /\ x.chunk_number = c.chunk_number /\ x.node = n
    /\ pending' = pending \cup {[id |-> enqueued + 1, chunk |-> c.id,
                                 target_node |-> n, attempts |-> 0]}
    /\ enqueued' = enqueued + 1
    /\ result' = [op |-> "enqueue", row |-> enqueued + 1]
    /\ UNCHANGED <<nodes, nextNodeId, up, defaultBackend, row_order, running, offline_nodes, files, chunks, objects,
                   stats, pref, fcache, nextId, events, damaged>>

\* manage.py process_pending_replications (--max-attempts left at its default)
ProcessPendingReplications ==
    /\ pending # {}
    /\ \E w \in {process_pending_replications(World, max_attempts)} :
       /\ Fits(w)
       /\ Commit(w)
    /\ result' = [op |-> "drain", before |-> pending, reach |-> up]
    /\ UNCHANGED <<nextNodeId, up, defaultBackend, row_order, running, offline_nodes, events, damaged, enqueued>>

NextPending ==
    \/ \E data \in Streams, size \in 1 .. MaxChunkSize : UploadFile(data, size)
    \/ \E c \in chunks, n \in DOMAIN nodes : EnqueuePending(c, n)
    \/ ProcessPendingReplications
    \/ \E n \in DOMAIN nodes, st \in StatusChoices : ChangeNodeStatus(n, st)
    \/ \E n \in DOMAIN nodes : NodeDown(n)
    \/ \E n \in DOMAIN nodes : NodeUp(n)

SpecPending == Init /\ [][NextPending]_vars


(****************************** node monitor *******************************)
\* one iteration of the loop of monitor_nodes.Command.handle; off is its
\* local set offline_nodes
monitor_pass(w, off) ==
    LET nodes_with_pending == {p.target_node : p \in w.pending} \cap DOMAIN w.nodes
        checked == {n \in nodes_with_pending : w.nodes[n].status = "active"}
        newly_online_nodes == {n \in checked : check_node_availability(w, n) /\ n \in off}
        seen_offline == {n \in checked : ~check_node_availability(w, n)}
    IN [w |-> IF newly_online_nodes # {}
              THEN process_pending_replications(w, max_attempts) ELSE w,
        offline_nodes |-> (off \ newly_online_nodes) \cup seen_offline,
        drained |-> newly_online_nodes # {}]

MonitorNodes ==
    /\ \E r \in {monitor_pass(World, offline_nodes)} :
       /\ Fits(r.w)
       /\ Commit(r.w)
       /\ offline_nodes' = r.offline_nodes
       /\ result' = [op |-> "monitor", drained |-> r.drained]
    /\ UNCHANGED <<nextNodeId, up, defaultBackend, row_order, running, events, damaged, enqueued>>

\* the monitor is started on the empty deployment; uploads, enqueued rows,
\* status changes and server outages happen while it loops
NextMonitor ==
    \/ \E data \in Streams, size \in 1 .. MaxChunkSize : UploadFile(data, size)
    \/ \E c \in chunks, n \in DOMAIN nodes : EnqueuePending(c, n)
    \/ MonitorNodes
    \/ \E n \in DOMAIN nodes, st \in StatusChoices : ChangeNodeStatus(n, st)
    \/ \E n \in DOMAIN nodes : NodeDown(n)
    \/ \E n \in DOMAIN nodes : NodeUp(n)

\* the loop of handle never ends: every iteration is eventually run
SpecMonitor == Init /\ [][NextMonitor]_vars /\ WF_vars(MonitorNodes)

(****************************** upload gate ********************************)
\* a deployment in any combination of node statuses and answering servers,
\* with nothing stored yet
InitGate ==
    /\ nodes \in {[n \in NodeIds |->
                      [status |-> st[n], is_primary |-> FALSE, priority |-> 0]]
                   : st \in [NodeIds -> StatusChoices]}
    /\ nextNodeId = MaxNodes + 1
    /\ up \in [NodeIds -> BOOLEAN]
    /\ defaultBackend \in {Local} \cup NodeIds
    /\ NothingStored

NextGate ==
    \/ \E data \in Streams, size \in 1 .. MaxChunkSize : UploadFile(data, size)
    \/ ExpireStats

SpecGate == InitGate /\ [][NextGate]_vars

(***************************** health reports ******************************)
RowStatuses == {"uploaded", "corrupt", "failed"}

\* a chunk row of file f as the tables can hold it: one byte, primaries on
\* node 1 and replicas on node 2
stored_row(f, n, rep, status) ==
    [new_chunk(2 * n - (IF rep THEN 0 ELSE 1), f, n, <<1>>,
               IF rep THEN replica_path(f, n, 2 * n) ELSE chunk_path(f, n, 2 * n - 1),
               IF rep THEN 2 ELSE 1, rep)
       EXCEPT !.status = status]

\* total primary rows, the first corrupt of them Corrupt, the next failed Failed
CountedRows ==
    {{stored_row(1, n, FALSE, IF n <= c THEN "corrupt"
                              ELSE IF n <= c + f THEN "failed" ELSE "uploaded")
        : n \in 1 .. t}
       : <<t, c, f>> \in {x \in (0 .. MaxChunkRows) \X (0 .. MaxChunkRows)
                                  \X (0 .. MaxChunkRows) : x[2] + x[3] <= x[1]}}

\* every set of rows of file 1 with chunk numbers up to MaxRowNumber that
\* unique_together admits
FileRows ==
    {{stored_row(1, k[1], k[2], pick[k]) : k \in {x \in DOMAIN pick : pick[x] # "absent"}}
       : pick \in [(1 .. MaxRowNumber) \X BOOLEAN -> RowStatuses \cup {"absent"}]}

\* total registered nodes, the first active of them Active
CountedNodes ==
    {[n \in 1 .. t |-> [status |-> IF n <= a THEN "active" ELSE "inactive",
                        is_primary |-> FALSE, priority |-> 0]]
       : <<t, a>> \in {x \in (0 .. MaxNodes) \X (0 .. MaxNodes) : x[2] <= x[1]}}

\* one StoredFile whose chunk rows, and the node table, are in any state
InitHealth ==
    /\ \/ nodes \in CountedNodes /\ chunks \in CountedRows
       \/ nodes = Deployed /\ chunks \in FileRows
    /\ files = (1 :> [data |-> <<1>>, checksum |-> sha256(<<1>>), size_bytes |-> 1])
    /\ nextNodeId = MaxNodes + 1
    /\ up = [n \in NodeIds |-> TRUE]
    /\ defaultBackend = Local
    /\ objects = <<>>
    /\ pending = {}
    /\ stats = NoStats
    /\ pref = <<>>
    /\ fcache = <<>>
    /\ nextId = 2 * MaxChunkRows + 1
    /\ events = 0
    /\ damaged = 0
    /\ enqueued = 0
    /\ offline_nodes = {}
    /\ row_order = InsertionOrder
    /\ running = NoneRunning
    /\ result = NoResult

\* GET api/health
GetOverallStatus ==
    /\ result' = [op |-> "overall", status |-> get_overall_status(nodes, chunks)]
    /\ UNCHANGED <<nodes, nextNodeId, up, defaultBackend, row_order, running, offline_nodes, files, chunks, objects,
                   pending, stats, pref, fcache, nextId, events, damaged, enqueued>>

\* RedundancyManager().check_file_integrity(file)
CheckFileIntegrity(f) ==
    /\ f \in DOMAIN files
    /\ result' = [op |-> "integrity", file |-> f,
                  report |-> check_file_integrity(chunks, f)]
    /\ UNCHANGED <<nodes, nextNodeId, up, defaultBackend, row_order, running, offline_nodes, files, chunks, objects,
                   pending, stats, pref, fcache, nextId, events, damaged, enqueued>>

\* GET api/health/files/<id>
GetFileHealth(f) ==
    /\ f \in DOMAIN files
    /\ result' = [op |-> "file_health", file |-> f,
                  report |-> get_file_health(chunks, f)]
    /\ UNCHANGED <<nodes, nextNodeId, up, defaultBackend, row_order, running, offline_nodes, files, chunks, objects,
                   pending, stats, pref, fcache, nextId, events, damaged, enqueued>>

NextHealth ==
    \/ GetOverallStatus
    \/ \E f \in DOMAIN files : CheckFileIntegrity(f)
    \/ \E f \in DOMAIN files : GetFileHealth(f)

SpecHealth == InitHealth /\ [][NextHealth]_vars

(************************* maintenance and repair **************************)
\* jobs.verify_chunk_integrity()
VerifyChunkIntegrity ==
    /\ chunks # {}
    /\ Commit(verify_chunk_integrity(World))
    /\ result' = [op |-> "verify_job"]
    /\ UNCHANGED <<nextNodeId, up, defaultBackend, row_order, running, offline_nodes, events, damaged, enqueued>>

\* jobs.create_chunk_replicas(min_replicas)
CreateChunkReplicas(min_replicas) ==
    /\ chunks # {}
    /\ \E w \in create_chunk_replicas(World, min_replicas) :
       /\ Fits(w)
       /\ Commit(w)
    /\ result' = [op |-> "replicas_job", min_replicas |-> min_replicas]
    /\ UNCHANGED <<nextNodeId, up, defaultBackend, row_order, running, offline_nodes, events, damaged, enqueued>>

\* GET files/<id>/repair
RepairFile(f) ==
    /\ f \in DOMAIN files
    /\ \E w \in {repair_file(World, f)} :
       /\ Fits(w)
       /\ Commit(w)
    /\ result' = [op |-> "repair", file |-> f]
    /\ UNCHANGED <<nextNodeId, up, defaultBackend, row_order, running, offline_nodes, events, damaged, enqueued>>

NextRepair ==
    \/ \E data \in Streams, size \in 1 .. MaxChunkSize : UploadFile(data, size)
    \/ VerifyChunkIntegrity
    \/ VerifyAndRepairAllChunks
    \/ \E f \in DOMAIN files : RepairFile(f)
    \/ \E path \in DOMAIN objects : CorruptObject(path)
    \/ \E path \in DOMAIN objects : DeleteObject(path)

SpecRepair == Init /\ [][NextRepair]_vars

NextJobs ==
    \/ \E data \in Streams, size \in 1 .. MaxChunkSize : UploadFile(data, size)
    \/ \E m \in 1 .. MaxMinReplicas : CreateChunkReplicas(m)
    \/ \E n \in DOMAIN nodes, st \in {"active", "inactive"} : ChangeStatus(n, st)
    \/ \E n \in DOMAIN nodes : NodeDown(n)

SpecJobs == Init /\ [][NextJobs]_vars

(***************************** node deletion *******************************)
\* delete view / delete_selected of FileNodeAdmin
DeleteFileNode(n) ==
    /\ n \in DOMAIN nodes
    /\ events < MaxEvents
    /\ Commit(delete_file_node(World, n))
    /\ events' = events + 1
    /\ result' = [op |-> "admin_site_delete", node |-> n]
    /\ UNCHANGED <<nextNodeId, up, defaultBackend, row_order, running, offline_nodes, damaged, enqueued>>

NextDelete ==
    \/ \E data \in Streams, size \in 1 .. MaxChunkSize : UploadFile(data, size)
    \/ \E n \in DOMAIN nodes, a \in AdminActions : AdminNodeManagement(n, a)
    \/ \E n \in DOMAIN nodes : DeleteFileNode(n)

SpecDelete == Init /\ [][NextDelete]_vars

(***************************** upload election *****************************)
\* NodeManager.elect_best_node_for_upload() called on its own
ElectBestNodeForUpload ==
    /\ \E r \in {elect_best_node_for_upload(World)} :
       /\ Commit(r.w)
       /\ result' = [op |-> "elect_best", node |-> r.node]
    /\ UNCHANGED <<nextNodeId, up, defaultBackend, row_order, running, offline_nodes, events, damaged,
                   enqueued>>

NextElect ==
    \/ \E data \in Streams, size \in 1 .. MaxChunkSize : UploadFile(data, size)
    \/ ElectBestNodeForUpload
    \/ \E n \in DOMAIN nodes : ChangeStatus(n, "inactive")
    \/ \E n \in DOMAIN nodes : NodeDown(n)
    \/ \E n \in DOMAIN nodes : NodeUp(n)
    \/ ExpireStats

SpecElect == Init /\ [][NextElect]_vars

(*********************** uploads during an outage **************************)
\* POST to upload_file while the servers of down stop answering: they go
\* down after the node for chunk number at has been elected and before that
\* chunk is written (after the upload, when it has no such chunk)
UploadDuringOutage(data, size, at, down) ==
    /\ Cardinality(DOMAIN files) < MaxFiles
    /\ events < MaxEvents
    /\ down # {}
    /\ \A n \in down : up[n]
    /\ \E r \in {upload_file([World EXCEPT !.outage = [at |-> at, nodes |-> down]],
                             data, size)} :
       /\ Fits(r.w)
       /\ Commit(r.w)
       /\ result' = [op |-> "upload_outage", status |-> r.status, file |-> r.file,
                     chunk_size |-> size, failed_at |-> r.failed_at]
    /\ up' = [n \in NodeIds |-> up[n] /\ n \notin down]
    /\ events' = events + 1
    /\ UNCHANGED <<nextNodeId, defaultBackend, row_order, running, offline_nodes, damaged, enqueued>>

NextUpload ==
    \/ \E data \in Streams, size \in 1 .. MaxChunkSize, at \in 1 .. MaxLen,
          down \in SUBSET NodeIds : UploadDuringOutage(data, size, at, down)
    \/ \E n \in DOMAIN nodes : NodeUp(n)
    \/ ExpireStats

SpecUpload == Init /\ [][NextUpload]_vars

(**************************** replica creation *****************************)
\* RedundancyManager(min_replicas).create_replicas_for_chunk(chunk)
CreateReplicasForChunk(c, min_replicas) ==
    /\ c \in chunks
    /\ \E r \in {create_replicas_for_chunk(World, c, {}, min_replicas)} :
       /\ Fits(r.w)
       /\ Commit(r.w)
       /\ result' = [op |-> "replicate", chunk |-> c.id, min_replicas |-> min_replicas,
                     created |-> r.created]
    /\ UNCHANGED <<nextNodeId, up, defaultBackend, row_order, running, offline_nodes, events, damaged,
                   enqueued>>

\* ensure_minimum_replicas in one process and the verification sweep in
\* another
EnsureDuringSweep(min_replicas) ==
    /\ chunks # {}
    /\ \E r \in {ensure_minimum_replicas_swept(World, min_replicas)} :
       /\ Fits(r.w)
       /\ Commit(r.w)
       /\ result' = [op |-> "ensure_swept", stats |-> r.stats]
    /\ UNCHANGED <<nextNodeId, up, defaultBackend, row_order, running, offline_nodes, events, damaged,
                   enqueued>>

NextReplicate ==
    \/ \E data \in Streams, size \in 1 .. MaxChunkSize : UploadFile(data, size)
    \/ \E c \in chunks, m \in 1 .. MaxMinReplicas : CreateReplicasForChunk(c, m)
    \/ \E m \in 1 .. MaxMinReplicas : EnsureDuringSweep(m)
    \/ \E path \in DOMAIN objects : CorruptObject(path)
    \/ \E n \in DOMAIN nodes : NodeDown(n)

SpecReplicate == Init /\ [][NextReplicate]_vars

(************************** verification by hand ***************************)
\* FileChunkAdmin action "Verify integrity of selected chunks" on queryset
VerifySelectedChunks(queryset) ==
    /\ queryset # {}
    /\ queryset \subseteq chunks
    /\ Commit(integrity_loop(World, OrderChunks(queryset)))
    /\ result' = [op |-> "admin_verify", rows |-> {c.id : c \in queryset}]
    /\ UNCHANGED <<nextNodeId, up, defaultBackend, row_order, running, offline_nodes, events, damaged,
                   enqueued>>

\* RedundancyManager().repair_chunk(c)
RepairChunk(c) ==
    /\ c \in chunks
    /\ \E r \in {repair_chunk(World, c)} :
       /\ Fits(r.w)
       /\ Commit(r.w)
       /\ result' = [op |-> "repair_chunk", chunk |-> c.id, ok |-> r.ok]
    /\ UNCHANGED <<nextNodeId, up, defaultBackend, row_order, running, offline_nodes, events, damaged,
                   enqueued>>

NextVerify ==
    \/ \E data \in Streams, size \in 1 .. MaxChunkSize : UploadFile(data, size)
    \/ \E queryset \in SUBSET chunks : VerifySelectedChunks(queryset)
    \/ \E c \in chunks : RepairChunk(c)
    \/ VerifyAndRepairAllChunks
    \/ \E f \in DOMAIN files : RepairFile(f)
    \/ \E path \in DOMAIN objects : CorruptObject(path)
    \/ \E n \in DOMAIN nodes : NodeDown(n)

SpecVerify == Init /\ [][NextVerify]_vars


(*************************** concurrent drains *****************************)
\* pending_rep.save() of an instance read earlier: UPDATE by primary key,
\* INSERT when no row has the key
save_pending(pend, inst) == {q \in pend : q.id # inst.id} \cup {inst}
\* pending_rep.attempts += 1
attempted(inst) == [inst EXCEPT !.attempts = @ + 1]

\* the call of process d after the row at the head of todo is done with
drained(r) ==
    IF Tail(r.todo) = <<>> THEN [op |-> "drained", wrote |-> r.wrote, rows |-> r.rows]
    ELSE [op |-> "drain", pc |-> "next", todo |-> Tail(r.todo), rows |-> r.rows,
          chs |-> r.chs, wrote |-> r.wrote]

\* Command.handle up to the start of its loop: the queryset
\* PendingReplication.objects.all().select_related('chunk', 'target_node')
\* is evaluated, the rows and their chunks are instances in memory
DrainBegin(d) ==
    /\ running[d] = Idle
    /\ pending # {}
    /\ running' = [running EXCEPT ![d] =
                      [op |-> "drain", pc |-> "next",
                       todo |-> SeqOf({p.id : p \in pending}),
                       rows |-> pending,
                       chs |-> {c \in chunks : \E p \in pending : p.chunk = c.id},
                       wrote |-> {}]]
    /\ UNCHANGED <<nodes, nextNodeId, up, defaultBackend, row_order, offline_nodes,
                   files, chunks, objects, pending, stats, pref, fcache, nextId,
                   events, damaged, enqueued, result>>

\* one row of the loop, up to get_object of create_replica_on_node
DrainNext(d) ==
    /\ running[d].op = "drain"
    /\ running[d].pc = "next"
    /\ LET r == running[d]
           pending_rep == CHOOSE p \in r.rows : p.id = Head(r.todo)
           chunk == CHOOSE c \in r.chs : c.id = pending_rep.chunk
           target_node == pending_rep.target_node
           again == /\ pending' = save_pending(pending, attempted(pending_rep))
                    /\ running' = [running EXCEPT ![d] = drained(r)]
       IN IF pending_rep.attempts >= max_attempts
          THEN /\ running' = [running EXCEPT ![d] = drained(r)]
               /\ UNCHANGED pending
          ELSE IF ~check_node_availability(World, target_node) THEN again
          ELSE IF chunk.is_replica \/ chunk.status # "uploaded" THEN again
          ELSE IF \E c \in chunks : c.file = chunk.file /\ c.is_replica
                      /\ c.chunk_number = chunk.chunk_number /\ c.node = target_node
          THEN /\ pending' = {q \in pending : q.id # pending_rep.id}
               /\ running' = [running EXCEPT ![d] = drained(r)]
          ELSE IF ~get_ok(World, chunk.node, chunk.storage_path) THEN again
          ELSE IF sha256(objects[chunk.storage_path].data) # chunk.checksum THEN again
          ELSE /\ running' = [running EXCEPT ![d] =
                                 [op |-> "drain", pc |-> "put", todo |-> r.todo,
                                  rows |-> r.rows, chs |-> r.chs, wrote |-> r.wrote,
                                  chunk_data |-> objects[chunk.storage_path].data]]
               /\ UNCHANGED pending
    /\ UNCHANGED <<nodes, nextNodeId, up, defaultBackend, row_order, offline_nodes,
                   files, chunks, objects, stats, pref, fcache, nextId,
                   events, damaged, enqueued, result>>

\* dest_client.put_object at a path with a fresh uuid
DrainPut(d) ==
    /\ running[d].op = "drain"
    /\ running[d].pc = "put"
    /\ nextId <= MaxIds
    /\ LET r == running[d]
           pending_rep == CHOOSE p \in r.rows : p.id = Head(r.todo)
           chunk == CHOOSE c \in r.chs : c.id = pending_rep.chunk
           target_node == pending_rep.target_node
           path == replica_path(chunk.file, chunk.chunk_number, nextId)
       IN IF ~put_ok(World, target_node)
          THEN /\ pending' = save_pending(pending, attempted(pending_rep))
               /\ running' = [running EXCEPT ![d] = drained(r)]
               /\ UNCHANGED <<objects, nextId>>
          ELSE /\ objects' = put_object(objects, target_node, path, r.chunk_data)
               /\ nextId' = nextId + 1
               /\ running' = [running EXCEPT ![d] =
                                 [op |-> "drain", pc |-> "record", todo |-> r.todo,
                                  rows |-> r.rows, chs |-> r.chs,
                                  wrote |-> r.wrote \cup {pending_rep.id},
                                  replica_path |-> path]]
               /\ UNCHANGED pending
    /\ UNCHANGED <<nodes, nextNodeId, up, defaultBackend, row_order, offline_nodes,
                   files, chunks, stats, pref, fcache,
                   events, damaged, enqueued, result>>

\* FileChunk.objects.create of the replica row (its id is the number drawn
\* for the path), then pending_rep.delete(), or attempts += 1 and save()
\* when the insert raised
DrainRecord(d) ==
    /\ running[d].op = "drain"
    /\ running[d].pc = "record"
    /\ LET r == running[d]
           pending_rep == CHOOSE p \in r.rows : p.id = Head(r.todo)
           chunk == CHOOSE c \in r.chs : c.id = pending_rep.chunk
           row == [chunk EXCEPT !.id = r.replica_path.nonce,
                                !.storage_path = r.replica_path,
                                !.node = pending_rep.target_node,
                                !.is_replica = TRUE, !.status = "uploaded"]
       IN IF unique_together(chunks, chunk.file, chunk.chunk_number, TRUE)
          THEN /\ pending' = save_pending(pending, attempted(pending_rep))
               /\ UNCHANGED chunks
          ELSE /\ chunks' = chunks \cup {row}
               /\ pending' = {q \in pending : q.id # pending_rep.id}
    /\ running' = [running EXCEPT ![d] = drained(running[d])]
    /\ UNCHANGED <<nodes, nextNodeId, up, defaultBackend, row_order, offline_nodes,
                   files, objects, stats, pref, fcache, nextId,
                   events, damaged, enqueued, result>>

NextDrainers ==
    \/ \E data \in Streams, size \in 1 .. MaxChunkSize : UploadFile(data, size)
    \/ \E c \in chunks, n \in DOMAIN nodes : EnqueuePending(c, n)
    \/ \E n \in DOMAIN nodes : NodeDown(n)
    \/ \E n \in DOMAIN nodes : NodeUp(n)
    \/ \E d \in Procs : DrainBegin(d)
    \/ \E d \in Procs : DrainNext(d)
    \/ \E d \in Procs : DrainPut(d)
    \/ \E d \in Procs : DrainRecord(d)

SpecDrainers == Init /\ [][NextDrainers]_vars


(*********************** concurrent upload elections ***********************)
\* elect_best_node_for_upload up to its test of the cached statistics: with
\* statistics in the cache the call runs to its end, without them the caller
\* goes on to compute them
ElectBegin(d) ==
    /\ running[d] = Idle
    /\ get_active_nodes(World) # <<>>
    /\ IF stats.none
       THEN /\ running' = [running EXCEPT ![d] = [op |-> "elect", pc |-> "refresh"]]
            /\ UNCHANGED <<nodes, chunks, objects, pending, stats, pref, fcache,
                           nextId, files, result>>
       ELSE /\ \E r \in {elect_best_node_for_upload(World)} :
               /\ Commit(r.w)
               /\ result' = [op |-> "elect_best", node |-> r.node]
            /\ UNCHANGED running
    /\ UNCHANGED <<nextNodeId, up, defaultBackend, row_order, offline_nodes, events,
                   damaged, enqueued>>

\* the caller probes the nodes, writes the cache and picks the node
ElectRefresh(d) ==
    /\ running[d].op = "elect"
    /\ \E r \in {elect_best_node_for_upload([World EXCEPT !.stats = NoStats])} :
       /\ Commit(r.w)
       /\ result' = [op |-> "elect_best", node |-> r.node]
    /\ running' = [running EXCEPT ![d] = Idle]
    /\ UNCHANGED <<nextNodeId, up, defaultBackend, row_order, offline_nodes, events,
                   damaged, enqueued>>

NextElectors ==
    \/ \E data \in Streams, size \in 1 .. MaxChunkSize : UploadFile(data, size)
    \/ \E d \in Procs : ElectBegin(d)
    \/ \E d \in Procs : ElectRefresh(d)
    \/ \E n \in DOMAIN nodes : NodeDown(n)
    \/ \E n \in DOMAIN nodes : NodeUp(n)
    \/ ExpireStats

SpecElectors == Init /\ [][NextElectors]_vars


(******************************* downloads *********************************)
NextDownload ==
    \/ \E data \in Streams, size \in 1 .. MaxChunkSize : UploadFile(data, size)
    \/ VerifyAndRepairAllChunks
    \/ \E f \in DOMAIN files : DownloadFile(f)
    \/ \E path \in DOMAIN objects : CorruptObject(path)
    \/ ExpireFileCache

SpecDownload == Init /\ [][NextDownload]_vars

(******************************* properties ********************************)
rows_of(f) == {c \in chunks : c.file = f}
primaries_of(f) == {c \in rows_of(f) : ~c.is_replica}
AllUploaded(f) == \A c \in rows_of(f) : c.status = "uploaded"
AllUp == \A n \in DOMAIN nodes : up[n]
AllActive == \A n \in DOMAIN nodes : nodes[n].status = "active"

\* the object of row c is in the bucket of the node the row names
OnItsNode(c) ==
    /\ c.storage_path \in DOMAIN objects
    /\ objects[c.storage_path].backend = c.node

\* ... and hashes to the digest stored in the row
Intact(c) == OnItsNode(c) /\ sha256(objects[c.storage_path].data) = c.checksum

\* every primary of f has exactly one Uploaded replica, on another node
OneReplicaEach(f) ==
    \A c \in primaries_of(f) :
        /\ Cardinality(uploaded_replicas(chunks, f, c.chunk_number)) = 1
        /\ \A r \in uploaded_replicas(chunks, f, c.chunk_number) : r.node # c.node

\* C1: round trip.  Right after an upload returned success, with every object
\* where it was written and every node answering, reassembling the file
\* returns exactly the uploaded bytes, whose SHA-256 is the digest stored on
\* the StoredFile.
C1_RoundTrip ==
    (/\ result.op = "upload"
     /\ result.status = "ok"
     /\ AllUp
     /\ \A c \in rows_of(result.file) : Intact(c))
    => \E r \in {reassemble_file_optimized(World, result.file)} :
          /\ r.ok
          /\ r.data = files[result.file].data
          /\ sha256(r.data) = files[result.file].checksum

\* C2: reassembly is never silently truncated.  When some chunk number the
\* upload wrote has no row with status Uploaded, reassembly fails.
C2_NeverTruncated ==
    \A f \in DOMAIN files :
        ({c.chunk_number : c \in rows_of(f)}
            \ {c.chunk_number : c \in {x \in rows_of(f) : x.status = "uploaded"}} # {})
        => ~reassemble_file_optimized(World, f).ok

\* C3: at most one node with status Active has is_primary = true.
C3_AtMostOnePrimary ==
    Cardinality({n \in ActiveIds(nodes) : nodes[n].is_primary}) <= 1

\* C4: read failover.  A file whose primaries each have one Uploaded replica
\* on another node, every object intact: when the node of some primary is
\* not Active or does not answer while the replica's node is Active and
\* answers, the download succeeds with the uploaded bytes.
C4_ReadFailover ==
    \A f \in DOMAIN files :
        (/\ AllUploaded(f)
         /\ OneReplicaEach(f)
         /\ \A c \in rows_of(f) : Intact(c)
         /\ \E c \in primaries_of(f) :
               nodes[c.node].status # "active" \/ ~up[c.node]
         /\ \A c \in primaries_of(f) :
               (nodes[c.node].status # "active" \/ ~up[c.node])
               => \A r \in uploaded_replicas(chunks, f, c.chunk_number) :
                     nodes[r.node].status = "active" /\ up[r.node])
        => \E d \in {download_file(World, f)} : d.ok /\ d.data = files[f].data

\* C5: repair law.  A healthy file whose primaries each have one Uploaded
\* replica, exactly one primary object overwritten with other bytes: one run
\* of verify_and_repair_all_chunks reports one corrupt and one repaired chunk,
\* leaves every row of the file Uploaded, and reassembly returns the
\* original bytes.
C5_RepairLaw ==
    \A f \in DOMAIN files :
        (/\ AllUploaded(f)
         /\ OneReplicaEach(f)
         /\ AllUp
         /\ AllActive
         /\ chunks = rows_of(f)
         /\ \A c \in rows_of(f) : OnItsNode(c)
         /\ Cardinality({c \in rows_of(f) : ~Intact(c)}) = 1
         /\ \A c \in rows_of(f) : ~Intact(c) => ~c.is_replica)
        => \E v \in {verify_and_repair_all_chunks(World)} :
              /\ v.stats.corrupt = 1
              /\ v.stats.repaired = 1
              /\ \A c \in v.w.chunks : c.status = "uploaded"
              /\ \E r \in {reassemble_file_optimized(v.w, f)} :
                    r.ok /\ r.data = files[f].data

\* C6: after ensure_minimum_replicas(min_replicas) has run, every Uploaded
\* primary has at least min_replicas Uploaded replicas, or every other
\* Active node holds a copy of the chunk.
C6_MinimumReplicas ==
    result.op = "ensure"
    => \A c \in chunks :
          (~c.is_replica /\ c.status = "uploaded")
          => \/ Cardinality(uploaded_replicas(chunks, c.file, c.chunk_number))
                   >= result.min_replicas
             \/ \A n \in ActiveIds(nodes) \ {c.node} :
                   \E x \in chunks : /\ x.file = c.file
                                     /\ x.chunk_number = c.chunk_number
                                     /\ x.node = n

\* the rows the last drain left for the row p it started with
LeftOf(p) == {q \in pending : q.id = p.id}
Retried(p) == [p EXCEPT !.attempts = @ + 1]
\* a replica row of p's chunk on p's target
ReplicaOnTarget(p) ==
    \E c \in chunks, x \in chunks :
        /\ c.id = p.chunk
        /\ x.is_replica
        /\ x.node = p.target_node
        /\ x.file = c.file
        /\ x.chunk_number = c.chunk_number

\* C7 (as stated): a row that five drains left at attempts = 5 is, once its
\* target answers, replicated and deleted by the next drain.
C7_RetriedAfterGiveUp ==
    result.op = "drain"
    => \A p \in result.before :
          (p.attempts = max_attempts /\ result.reach[p.target_node])
          => LeftOf(p) = {} /\ ReplicaOnTarget(p)

\* C7 (amended): a drain with max_attempts = 5 adds one attempt to a row
\* whose target does not answer, so five drains leave it at attempts = 5; a
\* row that has reached 5 attempts is skipped by every later drain, target
\* answering or not; a row below 5 whose target answers is deleted when the
\* replica is on the target, and gets one more attempt otherwise.
C7_PendingRetry ==
    /\ \A q \in pending : q.attempts <= max_attempts
    /\ result.op = "drain"
       => \A p \in result.before :
             IF p.attempts >= max_attempts THEN LeftOf(p) = {p}
             ELSE IF ~result.reach[p.target_node] THEN LeftOf(p) = {Retried(p)}
             ELSE \/ LeftOf(p) = {} /\ ReplicaOnTarget(p)
                  \/ LeftOf(p) = {Retried(p)}

\* a drain has just skipped a row that had used its five attempts although
\* its target answered
C7_Witness ==
    /\ result.op = "drain"
    /\ \E p \in result.before :
          /\ p.attempts = max_attempts
          /\ result.reach[p.target_node]
          /\ p \in pending

\* C8: check_file_integrity reports recoverable exactly when reassembly
\* succeeds under every outage of one node named by the file's chunk rows.
C8_RecoverableIffReassembles ==
    \A f \in DOMAIN files :
        check_file_integrity(chunks, f).recoverable
        <=> \A n \in {c.node : c \in rows_of(f)} :
               reassemble_file_optimized([World EXCEPT !.up[n] = FALSE], f).ok

\* C9: when the object of an Uploaded primary without any replica row is gone
\* from its store, check_file_integrity reports recoverable = false and
\* reassembly fails at that chunk number.
C9_LostPrimary ==
    \A f \in DOMAIN files : \A c \in primaries_of(f) :
        (/\ c.status = "uploaded"
         /\ ~\E x \in rows_of(f) : x.is_replica /\ x.chunk_number = c.chunk_number
         /\ c.storage_path \notin DOMAIN objects
         /\ \A x \in rows_of(f) \ {c} : Intact(x)
         /\ AllUp)
        => /\ ~check_file_integrity(chunks, f).recoverable
           /\ \E r \in {reassemble_file_optimized(World, f)} :
                 ~r.ok /\ r.at = c.chunk_number

\* C10: on a healthy store (every Uploaded row's object on the node it was
\* written to, hashing to the stored digest) a run of
\* verify_and_repair_all_chunks reports no corrupt and no repaired chunk and
\* changes no row, and so does a second run.
C10_VerifyIdempotent ==
    (/\ chunks # {}
     /\ AllUp
     /\ \A c \in chunks : c.status = "uploaded" => Intact(c))
    => \E v \in {verify_and_repair_all_chunks(World)} :
          /\ v.stats.corrupt = 0
          /\ v.stats.repaired = 0
          /\ v.w.chunks = chunks
          /\ \E v2 \in {verify_and_repair_all_chunks(v.w)} :
                /\ v2.stats.corrupt = 0
                /\ v2.stats.repaired = 0
                /\ v2.w.chunks = chunks

\* the edges a chunk row's status may take
StatusEdges ==
    {<<"pending", "uploading">>, <<"uploading", "uploaded">>, <<"uploading", "failed">>,
     <<"uploaded", "corrupt">>, <<"uploaded", "failed">>, <<"corrupt", "uploaded">>}

\* C11: a chunk row's status changes only along Pending->Uploading,
\* Uploading->Uploaded, Uploading->Failed, Uploaded->Corrupt, Uploaded->Failed
\* and Corrupt->Uploaded (so never from Failed to Uploaded), and no row of a
\* file is Pending after its upload reported success.
C11_StatusEdges ==
    /\ [](result.op = "upload" /\ result.status = "ok"
            => \A c \in rows_of(result.file) : c.status # "pending")
    /\ [][\A c \in chunks : \A d \in chunks' :
             (c.id = d.id /\ c.status # d.status)
             => <<c.status, d.status>> \in StatusEdges]_vars

\* C14: no two chunk rows of one (file, chunk_number) are on the same node.
C14_OneCopyPerNode ==
    \A c \in chunks : \A d \in chunks :
        (c.id # d.id /\ c.file = d.file /\ c.chunk_number = d.chunk_number)
        => c.node # d.node

\* the Active nodes whose server answers
Answering == {n \in DOMAIN nodes : nodes[n].status = "active" /\ up[n]}

\* C12: upload gate.  While fewer than 3 Active nodes answer, every upload
\* request is rejected and leaves files, chunk rows and objects as they were;
\* an upload that has just been made was rejected and nothing is stored.
C12_UploadGate ==
    Cardinality(Answering) < 3
    => /\ \A data \in Streams, size \in 1 .. MaxChunkSize :
             \E r \in {upload_file(World, data, size)} :
                /\ r.status = "rejected"
                /\ r.w.files = files
                /\ r.w.chunks = chunks
                /\ r.w.objects = objects
       /\ result.op = "upload"
          => result.status = "rejected" /\ files = <<>> /\ chunks = {}
             /\ objects = <<>>

\* an upload has just been rejected with two Active nodes answering
C12_Witness ==
    /\ result.op = "upload"
    /\ result.status = "rejected"
    /\ Cardinality(Answering) = 2

CeilDiv(a, b) == (a + b - 1) \div b

RECURSIVE SumSizes(_)
SumSizes(P) ==
    IF P = {} THEN 0
    ELSE LET c == CHOOSE x \in P : TRUE IN c.size_bytes + SumSizes(P \ {c})

\* C13: after a successful upload of L > 0 bytes with chunk size S the file
\* has N = ceil(L/S) primary rows numbered exactly 1..N, chunks 1..N-1 of
\* size S and chunk N of size L - (N-1)*S, and the sizes sum to L.
C13_ChunkLayout ==
    (result.op = "upload" /\ result.status = "ok")
    => LET f == result.file
           L == files[f].size_bytes
           S == result.chunk_size
           N == CeilDiv(L, S)
           P == primaries_of(f)
       IN /\ L > 0
          /\ Cardinality(P) = N
          /\ {c.chunk_number : c \in P} = 1 .. N
          /\ \A c \in P : c.size_bytes = IF c.chunk_number < N THEN S
                                          ELSE L - (N - 1) * S
          /\ SumSizes(P) = L

\* a two-byte file has just been uploaded in two chunks
C13_Witness ==
    /\ result.op = "upload"
    /\ result.status = "ok"
    /\ files[result.file].size_bytes = 2
    /\ result.chunk_size = 1
    /\ Cardinality(primaries_of(result.file)) = 2

\* the primaries of f written before chunk number k that are on node n
LoadBefore(f, k, n) ==
    Cardinality({c \in primaries_of(f) : c.chunk_number < k /\ c.node = n})

\* C16: during one upload every chunk goes to a node whose stored-chunk
\* count, counting the chunks this upload has already written, is minimal
\* among the Active nodes that answer (so, with equal initial load, the
\* chunks of one file go to distinct nodes).
C16_LeastLoadedPerChunk ==
    (result.op = "upload" /\ result.status = "ok")
    => \A c \in primaries_of(result.file) : \A n \in Answering :
          LoadBefore(result.file, c.chunk_number, c.node)
             <= LoadBefore(result.file, c.chunk_number, n)

\* C17: whenever chunk_file succeeded the upload reports success and the
\* StoredFile and all its primary rows are kept, whatever replication did.
C17_ReplicationNeverFailsUpload ==
    (result.op = "upload" /\ result.chunked)
    => /\ result.status = "ok"
       /\ result.file \in DOMAIN files
       /\ {c.chunk_number : c \in primaries_of(result.file)}
             = 1 .. CeilDiv(files[result.file].size_bytes, result.chunk_size)

\* an upload has just succeeded although a primary got no replica
C17_Witness ==
    /\ result.op = "upload"
    /\ result.chunked
    /\ result.status = "ok"
    /\ \E c \in primaries_of(result.file) :
          uploaded_replicas(chunks, c.file, c.chunk_number) = {}

\* the chunk numbers up to the highest primary of f that have no primary row
Gaps(f) ==
    LET nums == {c.chunk_number : c \in primaries_of(f)}
    IN IF nums = {} THEN {} ELSE (1 .. Max(nums)) \ nums

\* the chunk numbers of the primaries of f in status Corrupt or Failed
BadPrimaries(f) ==
    {c.chunk_number : c \in {x \in primaries_of(f) : x.status \in {"corrupt", "failed"}}}

\* every gap and every Corrupt or Failed primary of f has an Uploaded replica
Covered(f) ==
    \A n \in Gaps(f) \cup BadPrimaries(f) : uploaded_replicas(chunks, f, n) # {}

\* C15: for every set of chunk rows of a file (none at all and replicas only
\* included) check_file_integrity returns, with recoverable true exactly when
\* every gap and every Corrupt or Failed primary has an Uploaded replica, the
\* gaps as missing and the Corrupt and Failed primaries as corrupt.
C15_IntegrityReport ==
    result.op = "integrity"
    => /\ ~result.report.raised
       /\ result.report.recoverable <=> Covered(result.file)
       /\ result.report.missing = Gaps(result.file)
       /\ result.report.corrupt = BadPrimaries(result.file)

C20_FileHealthAgrees ==
    result.op = "file_health"
    => \E h \in {result.report} :
       \E r \in {check_file_integrity(chunks, result.file)} :
            LET issue == Gaps(result.file) # {} \/ BadPrimaries(result.file) # {}
            IN /\ ~r.raised
               /\ h.can_recover = r.recoverable
               /\ h.health_status = "critical" <=> ~h.can_recover
               /\ h.health_status = "warning" <=> h.can_recover /\ issue
               /\ h.health_status = "healthy" <=> h.can_recover /\ ~issue

\* PendingReplication row i waits for node n with attempts left
Waiting(i, n) ==
    \E p \in pending : p.id = i /\ p.target_node = n /\ p.attempts < max_attempts

\* node n is Active and its server answers
Ready(n) == n \in DOMAIN nodes /\ nodes[n].status = "active" /\ up[n]

\* C18: under a fair monitor loop, a PendingReplication row with attempts left
\* whose target node is Active and reachable from some point on is eventually
\* processed: either the node stops being ready or the row is deleted.
C18_PendingEventuallyDrained ==
    \A i \in 1 .. MaxPending, n \in NodeIds :
        Waiting(i, n) ~> (~Ready(n) \/ ~\E p \in pending : p.id = i)

\* C21: a node is never destroyed while it holds chunks: every chunk row keeps
\* a reference to a node that is still registered.
C21_NodeHoldingChunksKept ==
    \A c \in chunks : c.node # NoNode /\ c.node \in DOMAIN nodes

\* the Active node of lowest priority value, lowest id among equals
LowestPriorityLowestId(nd) ==
    CHOOSE x \in ActiveIds(nd) : \A y \in ActiveIds(nd) :
        \/ nd[x].priority < nd[y].priority
        \/ nd[x].priority = nd[y].priority /\ x <= y

\* C23: get_primary_node returns an Active primary and changes nothing when
\* there is one; returns none and changes nothing when no node is Active;
\* otherwise flags and returns the Active node of lowest priority value,
\* lowest id among nodes of equal priority.
C23_ElectionRule ==
    [][result'.op = "elect"
       => IF \E n \in ActiveIds(nodes) : nodes[n].is_primary
          THEN /\ result'.node \in {n \in ActiveIds(nodes) : nodes[n].is_primary}
               /\ nodes' = nodes
          ELSE IF ActiveIds(nodes) = {}
          THEN result'.node = NoNode /\ nodes' = nodes
          ELSE /\ result'.node = LowestPriorityLowestId(nodes)
               /\ nodes' = [nodes EXCEPT ![LowestPriorityLowestId(nodes)].is_primary = TRUE]]_vars

\* C24: when a status-changing operation takes an Active primary to Inactive
\* or Maintenance while another node is Active, some Active node is primary
\* once the operation has returned.
C24_PrimaryReelected ==
    [][(\E n \in DOMAIN nodes \cap DOMAIN nodes' :
           /\ nodes[n].is_primary
           /\ nodes[n].status = "active"
           /\ nodes'[n].status \in {"inactive", "maintenance"}
           /\ ActiveIds(nodes) \ {n} # {})
       => \E m \in ActiveIds(nodes') : nodes'[m].is_primary]_vars

\* C22: elect_best_node_for_upload returns an Active node that answers at the
\* moment of the call and holds the fewest chunk rows among such nodes; when
\* no Active node answers it returns the elected primary if that one answers,
\* and otherwise no node. (The call changes no status, outage or chunk row, so
\* the state after it is the state of the call.)
C22_BestNodeIsLive ==
    result.op = "elect_best"
    => IF Answering # {}
       THEN /\ result.node \in Answering
            /\ \A m \in Answering :
                   stored_chunks_count(chunks, result.node) <= stored_chunks_count(chunks, m)
       ELSE \/ result.node = NoNode
            \/ /\ result.node \in DOMAIN nodes
               /\ nodes[result.node].is_primary
               /\ up[result.node]

\* C25: an upload fails in chunk_file only when no currently available node
\* is left to write the chunk to: after a failed chunk write no Active node
\* answers.
C25_RetryUntilStored ==
    (result.op = "upload_outage" /\ result.status = "failed" /\ result.failed_at > 0)
    => Answering = {}

\* C26: when chunk k of an upload cannot be stored, no row of chunk k exists
\* afterwards and the primary rows of chunks 1..k-1 are still in the table.
C26_CommittedChunksRemain ==
    (result.op = "upload_outage" /\ result.status = "failed" /\ result.failed_at > 0)
    => /\ ~\E c \in chunks : c.chunk_number = result.failed_at
       /\ \A j \in 1 .. result.failed_at - 1 :
              \E c \in chunks : c.chunk_number = j /\ ~c.is_replica

\* the step is a handler that reports op: outages and damage to objects are
\* steps of the environment and leave the last report in place
Returned(op) == result'.op = op /\ UNCHANGED <<up, events, damaged>>

\* the rows a step adds to the table
NewRows == {c \in chunks' : ~\E x \in chunks : x.id = c.id}

\* C27: a replica row is created only for a (file, chunk_number) whose primary
\* row has status Uploaded when the replica row is written, also when the
\* verification sweep runs beside the operation.
C27_ReplicaOnlyOfUploaded ==
    [][\A c \in NewRows :
          c.is_replica
          => \E p \in chunks' : /\ p.file = c.file
                                /\ p.chunk_number = c.chunk_number
                                /\ ~p.is_replica
                                /\ p.status = "uploaded"]_vars

\* create_replicas_for_chunk is given the Uploaded primary c with a source
\* node and a target to try, and reads bytes from the source that do or do
\* not hash to the stored digest
SourceRead(c, intact) ==
    /\ ~c.is_replica
    /\ c.status = "uploaded"
    /\ c.node # NoNode
    /\ ActiveIds(nodes) \ {c.node} # {}
    /\ get_ok(World, c.node, c.storage_path)
    /\ (sha256(objects[c.storage_path].data) = c.checksum) = intact

\* C28: when create_replicas_for_chunk reads a source whose hash differs from
\* the stored digest, the primary row is marked Corrupt and no replica row
\* and no object is created.
C28_CorruptSourceMarked ==
    [][\A c \in chunks :
          (Returned("replicate") /\ result'.chunk = c.id /\ SourceRead(c, FALSE))
          => /\ \E x \in chunks' : x.id = c.id /\ x.status = "corrupt"
             /\ NewRows = {}
             /\ objects' = objects]_vars

\* the nodes create_replicas_for_chunk tries for chunk c
Targets(c, min_replicas) ==
    LET active_nodes == SeqOf(ActiveIds(nodes) \ {c.node})
    IN {active_nodes[i] : i \in 1 .. Len(Take(active_nodes, min_replicas))}

\* C29: when create_replicas_for_chunk wants a replica of an Uploaded primary
\* on a target node that does not answer, a PendingReplication row for
\* (chunk, target) with attempts = 0 is in the queue afterwards.
C29_UnreachableTargetQueued ==
    [][\A c \in chunks :
          (Returned("replicate") /\ result'.chunk = c.id /\ SourceRead(c, TRUE))
          => \A t \in Targets(c, result'.min_replicas) :
                 ~up[t]
                 => \E p \in pending' : /\ p.chunk = c.id
                                        /\ p.target_node = t
                                        /\ p.attempts = 0]_vars

\* C30: repair_chunk on a replica row returns false and changes no row and no
\* object, and a replica row in status Failed or Corrupt keeps that status in
\* every step.
C30_ReplicasNeverRepaired ==
    [][/\ \A c \in chunks :
             (Returned("repair_chunk") /\ result'.chunk = c.id /\ c.is_replica)
             => ~result'.ok /\ chunks' = chunks /\ objects' = objects
       /\ \A c \in chunks :
             (c.is_replica /\ c.status \in {"failed", "corrupt"})
             => \A x \in chunks' : x.id = c.id => x.status = c.status]_vars

\* C31: repair_chunk on a Corrupt primary returns true exactly when some
\* Uploaded replica row of the chunk number has an object that hashes to its
\* digest; then the primary is Uploaded and its storage path names an object
\* written by the call that holds the digest's bytes; otherwise the primary
\* row is left as it was.
C31_RepairIffGoodReplica ==
    [][\A c \in chunks :
          (Returned("repair_chunk") /\ result'.chunk = c.id /\ ~c.is_replica
           /\ c.status = "corrupt")
          => /\ result'.ok
                <=> \E r \in uploaded_replicas(chunks, c.file, c.chunk_number) : Intact(r)
             /\ result'.ok
                => \E x \in chunks' :
                      /\ x.id = c.id
                      /\ x.status = "uploaded"
                      /\ x.storage_path \notin DOMAIN objects
                      /\ x.storage_path \in DOMAIN objects'
                      /\ sha256(objects'[x.storage_path].data) = x.checksum
             /\ ~result'.ok => c \in chunks']_vars

\* C32: one drain cycle leaves a row that has reached max_attempts as it was,
\* keeps a row whose target does not answer or whose replica could not be made
\* with one more attempt, and deletes a row whose replica was made, a replica
\* row of its chunk then being on the target; attempts of a row never
\* decreases and never exceeds max_attempts.
C32_DrainCycle ==
    /\ [](result.op = "drain"
          => \A p \in result.before :
                /\ p.attempts >= max_attempts => LeftOf(p) = {p}
                /\ (p.attempts < max_attempts /\ ~result.reach[p.target_node])
                   => LeftOf(p) = {Retried(p)}
                /\ p.attempts < max_attempts
                   => \/ LeftOf(p) = {Retried(p)}
                      \/ LeftOf(p) = {} /\ ReplicaOnTarget(p))
    /\ [][\A p \in pending, q \in pending' :
             q.id = p.id => q.attempts >= p.attempts /\ q.attempts <= max_attempts]_vars

\* a drain deleted a row after making its replica
C32_Witness ==
    /\ result.op = "drain"
    /\ \E p \in result.before :
          /\ p.attempts < max_attempts
          /\ result.reach[p.target_node]
          /\ LeftOf(p) = {}
          /\ ReplicaOnTarget(p)

\* C33: of two drains running side by side, at most one writes the replica
\* object of a pending row to the target, and once both have finished a row
\* whose replica was written is deleted.
C33_OneDrainerPerRow ==
    /\ \A d \in Procs, e \in Procs :
          (d # e /\ running[d].op \in {"drain", "drained"}
                 /\ running[e].op \in {"drain", "drained"})
          => running[d].wrote \cap running[e].wrote = {}
    /\ (\A d \in Procs : running[d].op = "drained")
       => \A d \in Procs : \A id \in running[d].wrote :
             ~\E q \in pending : q.id = id

\* C37: of the callers that run elect_best_node_for_upload side by side
\* without cached statistics, at most one is recomputing them.
C37_SingleFlight ==
    \A d \in Procs, e \in Procs :
        (running[d].op = "elect" /\ running[e].op = "elect") => d = e

\* C34: a download that reassembles the file and reads a primary whose bytes
\* do not hash to the stored digest leaves that primary row Corrupt.
C34_CorruptPrimaryMarked ==
    [][\A f \in DOMAIN files :
          (/\ result'.op = "download" /\ result'.file = f
           /\ result'.ok /\ ~result'.cached
           /\ f \notin DOMAIN fcache /\ f \in DOMAIN fcache')
          => \A c \in chunks :
                (/\ c.file = f /\ ~c.is_replica /\ c.status = "uploaded"
                 /\ pref_key(f, c.chunk_number) \notin DOMAIN pref
                 /\ c.storage_path \in DOMAIN objects
                 /\ sha256(objects[c.storage_path].data) # c.checksum)
                => \E x \in chunks' : x.id = c.id /\ x.status = "corrupt"]_vars

\* the size from which a file is too large for the whole-file cache
\* (50 * 1024 * 1024 bytes, scaled to the streams of the model)
CacheSizeLimit == 2

\* C35: no file whose size_bytes is at or above the cache size limit has an
\* entry in the whole-file cache.
C35_LargeFilesNotCached ==
    \A f \in DOMAIN fcache : files[f].size_bytes < CacheSizeLimit

\* C36: whenever a chunk row becomes Uploaded (by insertion or by repair),
\* an object whose bytes hash to the row's digest is at the row's storage
\* path on the row's node.
C36_UploadedAfterWrite ==
    [][\A x \in chunks' :
          (x.status = "uploaded"
           /\ ~\E c \in chunks : c.id = x.id /\ c.status = "uploaded")
          => /\ x.storage_path \in DOMAIN objects'
             /\ objects'[x.storage_path].backend = x.node
             /\ sha256(objects'[x.storage_path].data) = x.checksum]_vars

C40_SweepStatistics ==
    [][Returned("verify")
       => LET st == result'.stats
              before == {c \in chunks : c.status = "uploaded"}
              bad == {c \in before : \E x \in chunks' :
                         x.id = c.id /\ x.status \in {"corrupt", "failed"}}
              fixed == {c \in before : \E x \in chunks' :
                           /\ x.id = c.id /\ ~c.is_replica /\ x.status = "uploaded"
                           /\ x.storage_path # c.storage_path}
          IN /\ st.corrupt = st.repaired + st.unrepairable
             /\ st.corrupt <= st.verified
             /\ st.verified = Cardinality(before)
             /\ st.unrepairable = Cardinality(bad)
             /\ st.repaired = Cardinality(fixed)]_vars

\* a sweep repaired one chunk and could not repair another
C40_Witness ==
    /\ result.op = "verify"
    /\ result.stats.repaired >= 1
    /\ result.stats.unrepairable >= 1

\* the bytes held at the storage paths of the rows whose ids are in rd
RECURSIVE BytesOf(_)
BytesOf(rd) ==
    IF rd = <<>> THEN <<>>
    ELSE objects[(CHOOSE c \in chunks : c.id = Head(rd)).storage_path].data
         \o BytesOf(Tail(rd))

\* C38: when a download reassembles the file successfully, the output is the
\* bytes of one Uploaded row for each chunk number it wrote, in order, and the
\* bytes of each of these rows hash to the row's stored digest.
C38_OutputVerified ==
    [][\A f \in DOMAIN files :
          (/\ result'.op = "download" /\ result'.file = f
           /\ result'.ok /\ ~result'.cached
           /\ f \notin DOMAIN fcache /\ f \in DOMAIN fcache')
          => LET rd == result'.read
             IN /\ \A i \in 1 .. Len(rd) :
                      \E c \in chunks :
                         /\ c.id = rd[i] /\ c.file = f /\ c.chunk_number = i
                         /\ c.status = "uploaded"
                         /\ c.storage_path \in DOMAIN objects
                         /\ sha256(objects[c.storage_path].data) = c.checksum
                /\ result'.data = BytesOf(rd)]_vars

\* a download wrote the bytes of a replica row while the Uploaded primary of
\* the chunk number holds bytes that do not hash to its digest
C38_Witness ==
    /\ result.op = "download"
    /\ result.ok
    /\ ~result.cached
    /\ \E i \in 1 .. Len(result.read) : \E r \in chunks, c \in chunks :
          /\ r.id = result.read[i] /\ r.is_replica
          /\ c.file = r.file /\ c.chunk_number = r.chunk_number /\ ~c.is_replica
          /\ c.status = "uploaded"
          /\ c.storage_path \in DOMAIN objects
          /\ sha256(objects[c.storage_path].data) # c.checksum

====
